---- MODULE Spec2Model ----
(***************************************************************************)
(* Model of the monitoring/persistence loop of yt-sentiment-analysis:      *)
(* src/src/youtube_monitor.py (YouTubeSentimentMonitor) and the scorer of  *)
(* src/src/sentiment_analyzer.py.                                          *)
(*                                                                         *)
(* Sentiment values are exact rationals, held as integers in units of      *)
(* 1/Unit, where Unit is a multiple of 20 and of every possible comment    *)
(* count, so that every mean of comment polarities and every threshold is  *)
(* an integer.  Floating point rounding is not modelled.                   *)
(***************************************************************************)
EXTENDS Integers, Sequences, FiniteSets, TLC

(***************************************************************************)
(* Bounds of the model.                                                    *)
(***************************************************************************)
\* largest value of the wall clock (datetime.now())
MaxClock == 2
\* largest AUTOINCREMENT id handed out by the history table
MaxHistoryId == 3
\* largest number of rows of the alerts table
MaxAlerts == 4
\* largest number of monitor_video calls the cycles of a run make
MaxMonitorCalls == 3

Videos == {"v1", "v2"}
Texts == {"awful", "meh", "great", "worst", "best"}

\* a CommentRecord as fetch_video_comments builds it
Comment(comment_id, comment_text) == [comment_id |-> comment_id, comment_text |-> comment_text]

\* the comment lists the API hands back in the model (the empty list: no comments)
FetchedComments ==
    { <<>>,
      <<Comment("c1", "great"), Comment("c2", "meh")>>,
      <<Comment("c1", "meh")>>,
      <<Comment("c1", "awful")>> }

RECURSIVE Gcd(_, _)
Gcd(a, b) == IF b = 0 THEN a ELSE Gcd(b, a % b)

RECURSIVE LcmUpTo(_)
LcmUpTo(n) == IF n <= 1 THEN 1 ELSE (LcmUpTo(n - 1) * n) \div Gcd(LcmUpTo(n - 1), n)

\* the largest number of comments of one fetch
MaxFetched == CHOOSE n \in 0..8 :
    /\ \E c \in FetchedComments : Len(c) = n
    /\ \A c \in FetchedComments : Len(c) <= n

\* number of model units in a sentiment of 1.0
Unit == 20 * LcmUpTo(MaxFetched)

\* x/100 as a sentiment value (x a multiple of 5)
Pct(x) == (x * Unit) \div 100

RECURSIVE SumPolarity(_)
SumPolarity(df) == IF df = <<>> THEN 0 ELSE Head(df).Polarity + SumPolarity(Tail(df))

\* the slip of leaving out the division by the number of rows
MeanPolarity_Sum(df) == SumPolarity(df)

\* comments_df['Polarity'].mean()
MeanPolarity(df) == SumPolarity(df) \div Len(df)

\* (comments_df['Polarity'] > 0.1).sum()
PositiveCount(df) == Cardinality({i \in 1..Len(df) : df[i].Polarity > Pct(10)})

\* (comments_df['Polarity'] < -0.1).sum()
NegativeCount(df) == Cardinality({i \in 1..Len(df) : df[i].Polarity < -Pct(10)})

(***************************************************************************)
(* The scorer.  TextBlob is an external library: its polarity is a fixed   *)
(* table over the texts of the model, in [-1, 1].                          *)
(***************************************************************************)
TextBlobPolarity(text) ==
    CASE text = "awful" -> -Pct(70)
      [] text = "meh"   -> 0
      [] text = "great" -> Pct(80)
      [] text = "worst" -> -Unit
      [] text = "best"  -> Unit

\* calculate_sentiment: the polarity, or 0.0 when TextBlob raises
calculate_sentiment(comment_text) ==
    IF comment_text \in Texts THEN TextBlobPolarity(comment_text) ELSE 0

\* the slip of keeping only the rows with a polarity other than 0.0
analyze_sentiment_batch_DropsNeutral(comments) ==
    SelectSeq([i \in 1..Len(comments) |->
                  [comment_id   |-> comments[i].comment_id,
                   comment_text |-> comments[i].comment_text,
                   Polarity     |-> calculate_sentiment(comments[i].comment_text)]],
              LAMBDA row : row.Polarity # 0)

\* analyze_sentiment_batch: one row per comment, with its Polarity column
analyze_sentiment_batch(comments) ==
    [i \in 1..Len(comments) |->
        [comment_id   |-> comments[i].comment_id,
         comment_text |-> comments[i].comment_text,
         Polarity     |-> calculate_sentiment(comments[i].comment_text)]]

\* analyze_comments_sentiment: the empty frame for no comments
analyze_comments_sentiment(comments) ==
    IF comments = <<>> THEN <<>> ELSE analyze_sentiment_batch(comments)

(***************************************************************************)
(* State.                                                                  *)
(***************************************************************************)
VARIABLES
    video_ids,          \* self.video_ids: the tracked list
    history,            \* table video_sentiment_history: [rows, seq (AUTOINCREMENT)]
    comment_snapshots,  \* table comment_snapshots: [rows, seq (AUTOINCREMENT)]
    alerts,             \* table alerts: rows in insertion (id) order
    video_info_cache,   \* table video_info_cache: the video ids with a row
    now,                \* the last value datetime.now() returned
    last_call,          \* the public method that ran last, with its arguments
    alerts_triggered,   \* the list the last check_sentiment_alerts returned
    monitored,          \* per video: avg_sentiment of its latest successful monitor_video
                        \* runs in a row
    monitor_calls,      \* the number of monitor_video calls the cycles have made
    check_alerts,       \* monitor_all_videos: its check_alerts argument
    pc,                 \* monitor_all_videos: "idle", or the step of monitor_video it is at
    idx,                \* monitor_all_videos: the position in video_ids of the video at work
    results,            \* monitor_all_videos: the result list
    comments,           \* monitor_video: the fetched comments
    comments_df,        \* monitor_video: the scored frame
    raising,            \* the steps of the video at work in which an exception was raised
    raised,             \* per result record: the steps in which an exception was raised
    fetched,            \* per result record: what fetch_video_comments returned
    service,            \* the process of monitor_service.py, with its configuration
    tracking            \* per video, the last of add_video and remove_video called for it

cycle == <<monitor_calls, check_alerts, pc, idx, results, comments, comments_df, raising,
           raised, fetched>>

vars == <<video_ids, history, comment_snapshots, alerts, video_info_cache, now,
          last_call, alerts_triggered, monitored, cycle, service, tracking>>

\* datetime.now(): a value not before the last one read
ClockReads == {t \in now..(now + 1) : t <= MaxClock}

(***************************************************************************)
(* save_snapshot                                                           *)
(***************************************************************************)
\* the slip of INSERT OR REPLACE on the snapshots
InsertOrIgnoreComment_Replace(tab, row) ==
    [rows |-> {r \in tab.rows : ~(/\ r.video_id = row.video_id
                                  /\ r.comment_id = row.comment_id
                                  /\ r.timestamp = row.timestamp)}
                \cup {[row EXCEPT !.id = tab.seq + 1]},
     seq  |-> tab.seq + 1]

\* INSERT OR IGNORE INTO comment_snapshots, UNIQUE(video_id, comment_id, timestamp)
InsertOrIgnoreComment(tab, row) ==
    IF \E r \in tab.rows : /\ r.video_id = row.video_id
                           /\ r.comment_id = row.comment_id
                           /\ r.timestamp = row.timestamp
    THEN tab
    ELSE [rows |-> tab.rows \cup {[row EXCEPT !.id = tab.seq + 1]},
          seq  |-> tab.seq + 1]

RECURSIVE InsertComments(_, _, _, _)
InsertComments(tab, video_id, df, timestamp) ==
    IF df = <<>> THEN tab
    ELSE InsertComments(
            InsertOrIgnoreComment(tab,
                [id |-> 0, video_id |-> video_id, comment_id |-> Head(df).comment_id,
                 timestamp |-> timestamp, comment_text |-> Head(df).comment_text,
                 sentiment |-> Head(df).Polarity]),
            video_id, Tail(df), timestamp)

\* the slip of a plain INSERT on a table without the UNIQUE constraint
InsertOrReplaceHistory_PlainInsert(tab, row) ==
    [rows |-> tab.rows \cup {[row EXCEPT !.id = tab.seq + 1]}, seq |-> tab.seq + 1]

\* INSERT OR REPLACE INTO video_sentiment_history, UNIQUE(video_id, timestamp)
InsertOrReplaceHistory(tab, row) ==
    [rows |-> {r \in tab.rows : ~(r.video_id = row.video_id /\ r.timestamp = row.timestamp)}
                \cup {[row EXCEPT !.id = tab.seq + 1]},
     seq  |-> tab.seq + 1]

\* the slip of leaving the negative comments out of the neutral count
HistoryEntry_NeutralSlip(video_id, df, timestamp) ==
    [id |-> 0, video_id |-> video_id, timestamp |-> timestamp,
     avg_sentiment  |-> MeanPolarity(df),
     positive_count |-> PositiveCount(df),
     negative_count |-> NegativeCount(df),
     neutral_count  |-> Len(df) - PositiveCount(df),
     total_comments |-> Len(df)]

\* the history row save_snapshot computes from the scored frame
HistoryEntry(video_id, df, timestamp) ==
    [id |-> 0, video_id |-> video_id, timestamp |-> timestamp,
     avg_sentiment  |-> MeanPolarity(df),
     positive_count |-> PositiveCount(df),
     negative_count |-> NegativeCount(df),
     neutral_count  |-> Len(df) - PositiveCount(df) - NegativeCount(df),
     total_comments |-> Len(df)]

\* the slip of leaving out the INSERT into video_sentiment_history
SaveSnapshot_SnapshotsOnly(hist, snaps, video_id, df, timestamp) ==
    IF df = <<>> THEN [history |-> hist, comment_snapshots |-> snaps]
    ELSE [history |-> hist,
          comment_snapshots |-> InsertComments(snaps, video_id, df, timestamp)]

\* save_snapshot(video_id, comments_df) at clock value timestamp: the two tables after it
SaveSnapshot(hist, snaps, video_id, df, timestamp) ==
    IF df = <<>>
    THEN [history |-> hist, comment_snapshots |-> snaps]
    ELSE [history |-> InsertOrReplaceHistory(hist, HistoryEntry(video_id, df, timestamp)),
          comment_snapshots |-> InsertComments(snaps, video_id, df, timestamp)]

(***************************************************************************)
(* check_sentiment_alerts                                                  *)
(***************************************************************************)
\* the thresholds used when the caller passes none
DefaultThresholds ==
    [negative_threshold |-> -Pct(30), positive_threshold |-> Pct(50),
     drop_threshold |-> Pct(20), rise_threshold |-> Pct(20)]

\* thresholds is None: <<>>; a dictionary: <<dict>>
EffectiveThresholds(thresholds) ==
    IF thresholds = <<>> THEN DefaultThresholds ELSE thresholds[1]

\* the slip of reading a missing previous entry as 0.0
PreviousSentiment_NoneAsZero(hist, video_id) ==
    LET mine == {r \in hist.rows : r.video_id = video_id}
        latest == {r \in mine : \A q \in mine : q.timestamp <= r.timestamp}
    IN  IF mine = {} THEN <<0>> ELSE <<(CHOOSE r \in latest : TRUE).avg_sentiment>>

\* SELECT avg_sentiment ... WHERE video_id = ? ORDER BY timestamp DESC LIMIT 1:
\* <<>> for no row (None), else <<avg_sentiment>> of a row with the greatest timestamp
PreviousSentiment(hist, video_id) ==
    LET mine == {r \in hist.rows : r.video_id = video_id}
        latest == {r \in mine : \A q \in mine : q.timestamp <= r.timestamp}
    IN  IF mine = {} THEN <<>> ELSE <<(CHOOSE r \in latest : TRUE).avg_sentiment>>

Alert(type, threshold, value) == [type |-> type, threshold |-> threshold, value |-> value]

\* the slip of a non-strict comparison
NegativeThresholdAlerts_NonStrict(current, th) ==
    IF current <= th.negative_threshold
    THEN <<[type |-> "negative_threshold", threshold |-> th.negative_threshold,
            value |-> current]>>
    ELSE <<>>

NegativeThresholdAlerts(current, th) ==
    IF current < th.negative_threshold
    THEN <<Alert("negative_threshold", th.negative_threshold, current)>> ELSE <<>>

\* variant: the positive test written as the else-branch of the negative one
PositiveThresholdAlerts_Elif(current, th) ==
    IF current < th.negative_threshold THEN <<>>
    ELSE IF current > th.positive_threshold
         THEN <<Alert("positive_threshold", th.positive_threshold, current)>> ELSE <<>>

PositiveThresholdAlerts(current, th) ==
    IF current > th.positive_threshold
    THEN <<Alert("positive_threshold", th.positive_threshold, current)>> ELSE <<>>

\* the slip of a non-strict comparison
SentimentDropAlerts_NonStrict(current, previous, th) ==
    IF previous # <<>> /\ current - previous[1] <= -th.drop_threshold
    THEN <<[type |-> "sentiment_drop", threshold |-> th.drop_threshold,
            value |-> current - previous[1]]>>
    ELSE <<>>

SentimentDropAlerts(current, previous, th) ==
    IF previous # <<>> /\ current - previous[1] < -th.drop_threshold
    THEN <<Alert("sentiment_drop", th.drop_threshold, current - previous[1])>> ELSE <<>>

SentimentRiseAlerts(current, previous, th) ==
    IF previous # <<>> /\ current - previous[1] > th.rise_threshold
    THEN <<Alert("sentiment_rise", th.rise_threshold, current - previous[1])>> ELSE <<>>

\* the list check_sentiment_alerts builds and returns
AlertsTriggered(hist, video_id, current, thresholds) ==
    LET th == EffectiveThresholds(thresholds)
        previous == PreviousSentiment(hist, video_id)
    IN  NegativeThresholdAlerts(current, th) \o PositiveThresholdAlerts(current, th)
            \o SentimentDropAlerts(current, previous, th)
            \o SentimentRiseAlerts(current, previous, th)

\* the slip of skipping an alert the table already holds
SaveAlerts_Deduplicated(tab, video_id, triggered, timestamp) ==
    tab \o SelectSeq(
            [i \in 1..Len(triggered) |->
                [video_id |-> video_id, alert_type |-> triggered[i].type,
                 timestamp |-> timestamp, threshold |-> triggered[i].threshold,
                 current_value |-> triggered[i].value]],
            LAMBDA row : ~\E k \in 1..Len(tab) :
                            /\ tab[k].video_id = row.video_id
                            /\ tab[k].alert_type = row.alert_type
                            /\ tab[k].threshold = row.threshold
                            /\ tab[k].current_value = row.current_value)

\* INSERT INTO alerts, one row per triggered alert, all with the call's timestamp
SaveAlerts(tab, video_id, triggered, timestamp) ==
    tab \o [i \in 1..Len(triggered) |->
                [video_id |-> video_id, alert_type |-> triggered[i].type,
                 timestamp |-> timestamp, threshold |-> triggered[i].threshold,
                 current_value |-> triggered[i].value]]

(***************************************************************************)
(* fetch_video_comments.  The API is a script of responses: the response   *)
(* to the videos().list request, then the responses to the successive      *)
(* commentThreads().list requests.                                         *)
(***************************************************************************)
\* a comment thread of a page: the top level comment and its replies
Thread(top, replies) == [top |-> top, replies |-> replies]

\* a page of comment threads; nextPageToken: the response carries one
Page(items, nextPageToken) ==
    [outcome |-> "ok", items |-> items, nextPageToken |-> nextPageToken]

\* a request that raises: HttpError with a status, or another exception
Raises(outcome) == [outcome |-> outcome]

\* the comments of a page in the order they are appended: each top level comment,
\* then its replies
RECURSIVE PageComments(_)
PageComments(items) ==
    IF items = <<>> THEN <<>>
    ELSE <<Head(items).top>> \o Head(items).replies \o PageComments(Tail(items))

\* the except clauses: what is printed for an exception; nothing of it is returned
FetchExceptionPrinted(outcome) ==
    CASE outcome = "http_403" -> "API quota exceeded or access denied"
      [] outcome = "http_404" -> "Video not found"
      [] outcome \in {"http_500"} -> "Error fetching comments"
      [] OTHER -> "Unexpected error fetching comments"

\* the while loop over the pages: collected is the list so far; requests counts
\* the commentThreads().list requests executed
RECURSIVE FetchPages(_, _, _)
FetchPages(pages, collected, max_results) ==
    IF ~(Len(collected) < max_results) \/ pages = <<>>
    THEN [returned |-> collected, printed |-> "", raised |-> FALSE, requests |-> 0]
    ELSE IF Head(pages).outcome # "ok"
    THEN [returned |-> collected, printed |-> FetchExceptionPrinted(Head(pages).outcome),
          raised |-> FALSE, requests |-> 1]
    ELSE LET more == collected \o PageComments(Head(pages).items)
         IN  IF Head(pages).nextPageToken /\ Len(more) < max_results
             THEN LET rest == FetchPages(Tail(pages), more, max_results)
                  IN  [rest EXCEPT !.requests = @ + 1]
             ELSE [returned |-> more, printed |-> "", raised |-> FALSE, requests |-> 1]

\* the slip of giving up what was collected when a request fails
fetch_video_comments_EmptyOnFailure(api, max_results) ==
    LET f == IF api.video = "found" THEN FetchPages(api.pages, <<>>, max_results)
             ELSE [returned |-> <<>>, printed |-> FetchExceptionPrinted(api.video),
                   raised |-> FALSE, requests |-> 0]
    IN  IF f.printed # "" THEN [f EXCEPT !.returned = <<>>] ELSE f

\* fetch_video_comments(video_id, max_results) against the script api: the list it
\* returns, what it prints, whether an exception leaves it, and the page requests
\* it executed
fetch_video_comments(api, max_results) ==
    IF api.video = "no_items"
    THEN [returned |-> <<>>, printed |-> "Video not found or not accessible",
          raised |-> FALSE, requests |-> 0]
    ELSE IF api.video # "found"
    THEN [returned |-> <<>>, printed |-> FetchExceptionPrinted(api.video), raised |-> FALSE,
          requests |-> 0]
    ELSE FetchPages(api.pages, <<>>, max_results)

\* the scripts of the model
PageScripts ==
    LET t1 == Thread(Comment("c1", "great"), <<>>)
        t2 == Thread(Comment("c2", "meh"), <<Comment("c3", "awful")>>)
        failures == {"http_403", "http_404", "http_500", "exception"}
    IN  {<<Page(<<>>, FALSE)>>, <<Page(<<t1>>, FALSE)>>, <<Page(<<t2>>, FALSE)>>,
         <<Page(<<t1, t2>>, FALSE)>>, <<Page(<<t1>>, TRUE), Page(<<t2>>, FALSE)>>}
        \cup {<<Raises(f)>> : f \in failures}
        \cup {<<Page(<<t1>>, TRUE), Raises(f)>> : f \in failures}

ApiScripts ==
    {[video |-> "found", pages |-> p] : p \in PageScripts}
    \cup {[video |-> o, pages |-> <<>>] :
            o \in {"no_items", "http_403", "http_404", "http_500", "exception"}}

\* the max_results arguments of the model
MaxResultsInputs == {1, 2, 100}

(***************************************************************************)
(* get_sentiment_history, get_recent_alerts.  The timestamp column holds   *)
(* the text datetime.isoformat() gives, and SQLite compares text byte by   *)
(* byte.  A clock value counts half units of the last field isoformat      *)
(* writes in full; isoformat writes the fraction only when it is not zero. *)
(***************************************************************************)
\* the hours arguments of the model
HoursInputs == {0, 1, 2}

\* timedelta(hours=hours), in clock values
Timedelta(hours) == 2 * hours

\* datetime.isoformat(), as the bytes of its text: two digits, then ".5" for the
\* fraction when there is one (the dates of the model start where no cutoff of the
\* model is before the first date)
IsoFormat(t) ==
    LET shifted == t + Timedelta(CHOOSE h \in HoursInputs : \A g \in HoursInputs : g <= h)
        whole == shifted \div 2
    IN  <<48 + (whole \div 10), 48 + (whole % 10)>>
        \o (IF shifted % 2 = 0 THEN <<>> ELSE <<46, 53>>)

\* text a < text b in SQLite's BINARY collation: the first differing byte decides,
\* and a proper prefix is less
RECURSIVE TextLess(_, _)
TextLess(a, b) ==
    IF b = <<>> THEN FALSE
    ELSE IF a = <<>> THEN TRUE
    ELSE IF Head(a) # Head(b) THEN Head(a) < Head(b)
    ELSE TextLess(Tail(a), Tail(b))

\* the slip of writing > for >= in the WHERE clause
InWindow_Strict(timestamp, cutoff) == TextLess(IsoFormat(cutoff), IsoFormat(timestamp))

\* WHERE timestamp >= ?, the parameter being cutoff_time
InWindow(timestamp, cutoff) == ~TextLess(IsoFormat(timestamp), IsoFormat(cutoff))

\* the orders ORDER BY timestamp ASC can give the rows of a set: sequences of all
\* the rows, each once, with no row before one of a lesser timestamp
OrderedAscending(rows) ==
    {s \in [1..Cardinality(rows) -> rows] :
        /\ \A i, j \in DOMAIN s : i # j => s[i] # s[j]
        /\ \A i, j \in DOMAIN s :
              i < j => ~TextLess(IsoFormat(s[j].timestamp), IsoFormat(s[i].timestamp))}

\* the orders ORDER BY timestamp DESC can give the rows of a set
OrderedDescending(rows) ==
    {s \in [1..Cardinality(rows) -> rows] :
        /\ \A i, j \in DOMAIN s : i # j => s[i] # s[j]
        /\ \A i, j \in DOMAIN s :
              i < j => ~TextLess(IsoFormat(s[i].timestamp), IsoFormat(s[j].timestamp))}

\* get_sentiment_history(video_id, hours) when datetime.now() gives t_now: the frames
\* the query can give
get_sentiment_history(hist, video_id, hours, t_now) ==
    OrderedAscending({r \in hist.rows :
                        /\ r.video_id = video_id
                        /\ InWindow(r.timestamp, t_now - Timedelta(hours))})

\* the rows of the alerts table with their id column
AlertRows(tab) ==
    {[id |-> i, video_id |-> tab[i].video_id, alert_type |-> tab[i].alert_type,
      timestamp |-> tab[i].timestamp, threshold |-> tab[i].threshold,
      current_value |-> tab[i].current_value] : i \in 1..Len(tab)}

\* get_recent_alerts(hours) when datetime.now() gives t_now: the frames the query
\* can give
get_recent_alerts(tab, hours, t_now) ==
    OrderedDescending({r \in AlertRows(tab) :
                         InWindow(r.timestamp, t_now - Timedelta(hours))})

(***************************************************************************)
(* get_video_title                                                         *)
(***************************************************************************)
\* video_info_cache after get_video_title(video_id): a cache hit changes nothing;
\* on a miss cache_video_info stores the row when the API returned the video
GetVideoTitleCache(cache, video_id, api_found) ==
    IF video_id \in cache THEN cache
    ELSE IF api_found THEN cache \cup {video_id} ELSE cache

(***************************************************************************)
(* monitor_video                                                           *)
(***************************************************************************)
\* count / len(comments_df) * 100, in units of 1/LcmUpTo(MaxFetched) percent
PctOf(count, n) == (count * 100 * LcmUpTo(MaxFetched)) \div n

\* the slip of giving the empty fetch the status of the empty scoring
NoCommentsRecord_AnalysisFailed(video_id) ==
    [video_id |-> video_id, status |-> "analysis_failed"]

NoCommentsRecord(video_id) == [video_id |-> video_id, status |-> "no_comments"]

AnalysisFailedRecord(video_id) == [video_id |-> video_id, status |-> "analysis_failed"]

SuccessRecord(video_id, df, triggered) ==
    [video_id |-> video_id, status |-> "success",
     total_comments |-> Len(df),
     avg_sentiment  |-> MeanPolarity(df),
     positive_pct   |-> PctOf(PositiveCount(df), Len(df)),
     negative_pct   |-> PctOf(NegativeCount(df), Len(df)),
     neutral_pct    |-> 100 * LcmUpTo(MaxFetched) - PctOf(PositiveCount(df), Len(df))
                            - PctOf(NegativeCount(df), Len(df)),
     positive_count |-> PositiveCount(df),
     negative_count |-> NegativeCount(df),
     neutral_count  |-> Len(df) - PositiveCount(df) - NegativeCount(df),
     alerts         |-> Len(triggered)]

\* monitor_video passes no thresholds to check_sentiment_alerts
MonitorThresholds == <<>>

\* monitor_video(video_id, max_comments, check_alerts), no step of it raising:
\* the store, the returned alert list and the result record after it.
\* comments: what fetch_video_comments returned; t_save <= t_alert: the clock
\* values save_snapshot and check_sentiment_alerts read.
MonitorVideo(hist, snaps, alrts, video_id, fetched_comments, alerting, t_save, t_alert) ==
    LET df == analyze_comments_sentiment(fetched_comments)
        saved == SaveSnapshot(hist, snaps, video_id, df, t_save)
        triggered == IF alerting
                     THEN AlertsTriggered(saved.history, video_id, MeanPolarity(df),
                                          MonitorThresholds)
                     ELSE <<>>
    IN  IF fetched_comments = <<>>
        THEN [history |-> hist, comment_snapshots |-> snaps, alerts |-> alrts,
              triggered |-> <<>>, checked |-> FALSE,
              result |-> NoCommentsRecord(video_id)]
        ELSE IF df = <<>>
        THEN [history |-> hist, comment_snapshots |-> snaps, alerts |-> alrts,
              triggered |-> <<>>, checked |-> FALSE,
              result |-> AnalysisFailedRecord(video_id)]
        ELSE [history |-> saved.history, comment_snapshots |-> saved.comment_snapshots,
              alerts |-> SaveAlerts(alrts, video_id, triggered, t_alert),
              triggered |-> triggered, checked |-> alerting,
              result |-> SuccessRecord(video_id, df, triggered)]

(***************************************************************************)
(* Inputs of the direct calls.                                             *)
(***************************************************************************)
\* current_sentiment values passed to check_sentiment_alerts
SentimentInputs == {-Pct(35), -Pct(30), -Pct(25), Pct(10), Pct(20), Pct(50), Pct(55)}

\* thresholds passed to check_sentiment_alerts: none; a custom dictionary; a
\* dictionary with negative_threshold > positive_threshold
CustomThresholds ==
    [negative_threshold |-> -Pct(25), positive_threshold |-> Pct(50),
     drop_threshold |-> Pct(30), rise_threshold |-> Pct(10)]

InvertedThresholds ==
    [negative_threshold |-> Pct(20), positive_threshold |-> -Pct(30),
     drop_threshold |-> Pct(20), rise_threshold |-> Pct(20)]

ThresholdInputs == {<<>>, <<CustomThresholds>>, <<InvertedThresholds>>}

\* the scored frames passed to save_snapshot
ScoredFrames == {analyze_comments_sentiment(c) : c \in FetchedComments}

Frame04 == analyze_comments_sentiment(<<Comment("c1", "great"), Comment("c2", "meh")>>)
Frame07 == analyze_comments_sentiment(<<Comment("c1", "awful")>>)

EmptyDatabase ==
    [history |-> [rows |-> {}, seq |-> 0], comment_snapshots |-> [rows |-> {}, seq |-> 0]]

\* the database after one more save_snapshot
After(db, video_id, df, timestamp) ==
    SaveSnapshot(db.history, db.comment_snapshots, video_id, df, timestamp)

\* databases left by earlier save_snapshot calls, on which a monitor is constructed
\* (_init_database creates the tables only if they do not exist)
DatabaseInits ==
    { EmptyDatabase,
      After(EmptyDatabase, "v1", Frame04, 0),
      After(After(EmptyDatabase, "v1", Frame07, 0), "v1", Frame04, 1),
      After(After(EmptyDatabase, "v1", Frame04, 0), "v1", Frame07, 1),
      After(EmptyDatabase, "v2", Frame04, 1),
      After(After(EmptyDatabase, "v1", Frame04, 0), "v2", Frame07, 1) }

\* the greatest timestamp of a table's rows (0 for none)
LatestTimestamp(rows) ==
    IF rows = {} THEN 0
    ELSE (CHOOSE r \in rows : \A q \in rows : q.timestamp <= r.timestamp).timestamp

(***************************************************************************)
(* Initial states.                                                         *)
(***************************************************************************)
\* the lists passed to the constructor as video_ids
TrackedInits == {<<>>, <<"v1">>, <<"v1", "v2">>, <<"v2", "v1", "v2">>}

\* the monitor is used without the service, as the dashboard does
NoService == [pc |-> "none"]

\* the state of a monitor object constructed on a database, an alerts table and a
\* title cache
MonitorWith(db, alert_rows, cached, ids) ==
    /\ video_ids = ids
    /\ monitor_calls = 0
    /\ check_alerts = TRUE
    /\ pc = "idle"
    /\ idx = 0
    /\ results = <<>>
    /\ comments = <<>>
    /\ comments_df = <<>>
    /\ raising = {}
    /\ raised = <<>>
    /\ fetched = <<>>
    /\ history = db.history
    /\ comment_snapshots = db.comment_snapshots
    /\ alerts = alert_rows
    /\ video_info_cache = cached
    /\ now = LatestTimestamp(db.history.rows
                             \cup {alert_rows[i] : i \in 1..Len(alert_rows)})
    /\ last_call = [op |-> "__init__"]
    /\ alerts_triggered = <<>>
    /\ monitored = [v \in Videos |-> <<>>]
    /\ tracking = [v \in Videos |-> "initial"]

\* the state of a monitor object constructed on a database with no alert row
MonitorOn(db, ids) == MonitorWith(db, <<>>, {}, ids)

InitOn(db, ids) == MonitorOn(db, ids) /\ service = NoService

\* a monitor constructed on an empty database, with a list of videos to track
Init == \E ids \in TrackedInits : InitOn(EmptyDatabase, ids)

\* a monitor constructed on an empty database, tracking nothing
InitEmpty == InitOn(EmptyDatabase, <<>>)

\* a monitor constructed on a database earlier runs left behind
InitDatabase == \E db \in DatabaseInits : InitOn(db, <<>>)

(***************************************************************************)
(* The public methods, each called directly.                               *)
(***************************************************************************)
SaveSnapshotCall ==
    \E video_id \in Videos, df \in ScoredFrames, timestamp \in ClockReads :
        LET saved == SaveSnapshot(history, comment_snapshots, video_id, df, timestamp)
        IN  /\ saved.history.seq <= MaxHistoryId
            /\ history' = saved.history
            /\ comment_snapshots' = saved.comment_snapshots
            /\ now' = IF df = <<>> THEN now ELSE timestamp
            /\ last_call' = [op |-> "save_snapshot", video_id |-> video_id,
                             comments_df |-> df, timestamp |-> timestamp]
            /\ UNCHANGED <<video_ids, alerts, video_info_cache, alerts_triggered, monitored,
                           cycle, service, tracking>>

\* the slip of recording the checked value as a history entry of the video
CheckSentimentAlertsCall_SavesEntry(currents, thresholdss) ==
    \E video_id \in Videos, current \in currents, thresholds \in thresholdss,
       timestamp \in ClockReads :
        LET triggered == AlertsTriggered(history, video_id, current, thresholds)
        IN  /\ Len(alerts) + Len(triggered) <= MaxAlerts
            /\ alerts' = SaveAlerts(alerts, video_id, triggered, timestamp)
            /\ history' = InsertOrReplaceHistory(history,
                              [video_id |-> video_id, timestamp |-> timestamp,
                               avg_sentiment |-> current, positive_count |-> 0,
                               negative_count |-> 0, neutral_count |-> 0,
                               total_comments |-> 0])
            /\ alerts_triggered' = triggered
            /\ now' = timestamp
            /\ last_call' = [op |-> "check_sentiment_alerts", video_id |-> video_id,
                             current_sentiment |-> current, thresholds |-> thresholds,
                             timestamp |-> timestamp]
            /\ UNCHANGED <<video_ids, comment_snapshots, video_info_cache, monitored,
                           cycle, service, tracking>>

CheckSentimentAlertsCall(currents, thresholdss) ==
    \E video_id \in Videos, current \in currents, thresholds \in thresholdss,
       timestamp \in ClockReads :
        LET triggered == AlertsTriggered(history, video_id, current, thresholds)
        IN  /\ Len(alerts) + Len(triggered) <= MaxAlerts
            /\ alerts' = SaveAlerts(alerts, video_id, triggered, timestamp)
            /\ alerts_triggered' = triggered
            /\ now' = timestamp
            /\ last_call' = [op |-> "check_sentiment_alerts", video_id |-> video_id,
                             current_sentiment |-> current, thresholds |-> thresholds,
                             timestamp |-> timestamp]
            /\ UNCHANGED <<video_ids, history, comment_snapshots, video_info_cache, monitored,
                           cycle, service, tracking>>

MonitorVideoCall ==
    \E video_id \in Videos, api_found \in BOOLEAN, fetched_comments \in FetchedComments,
       alerting \in BOOLEAN, t_save \in ClockReads :
      \E t_alert \in {t \in t_save..(t_save + 1) : t <= MaxClock} :
        LET m == MonitorVideo(history, comment_snapshots, alerts, video_id, fetched_comments,
                              alerting, t_save, t_alert)
        IN  /\ history' = m.history
            /\ comment_snapshots' = m.comment_snapshots
            /\ alerts' = m.alerts
            /\ alerts_triggered' = IF m.checked THEN m.triggered ELSE alerts_triggered
            /\ video_info_cache' = GetVideoTitleCache(video_info_cache, video_id, api_found)
            /\ now' = IF m.result.status # "success" THEN now
                      ELSE IF m.checked THEN t_alert ELSE t_save
            /\ monitored' = IF m.result.status = "success"
                            THEN [monitored EXCEPT ![video_id] =
                                    Append(@, m.result.avg_sentiment)]
                            ELSE [monitored EXCEPT ![video_id] = <<>>]
            /\ last_call' = [op |-> "monitor_video", video_id |-> video_id,
                             comments |-> fetched_comments, check_alerts |-> alerting,
                             result |-> m.result]
            /\ UNCHANGED <<video_ids, cycle, service, tracking>>

\* One public method applied once to a database drawn from DatabaseInits.
EvalCheckSentimentAlerts ==
    /\ last_call.op = "__init__"
    /\ CheckSentimentAlertsCall(SentimentInputs, ThresholdInputs)

EvalMonitorVideo ==
    /\ last_call.op = "__init__"
    /\ MonitorVideoCall

NextEval == EvalCheckSentimentAlerts \/ EvalMonitorVideo

SpecEval == InitDatabase /\ [][NextEval]_vars

\* save_snapshot called again and again on an initially empty database.
NextPersist == SaveSnapshotCall

SpecPersist == InitEmpty /\ [][NextPersist]_vars

\* the comment lists of the scoring runs: texts at the ends of the polarity range,
\* a text the scorer fails on, and a fetch that carries a comment twice
ExtremeComments ==
    { <<Comment("c1", "best")>>, <<Comment("c1", "worst")>>,
      <<Comment("c1", "best"), Comment("c1", "best")>>,
      <<Comment("c1", "best"), Comment("c2", "best")>>,
      <<Comment("c1", "worst"), Comment("c2", "worst")>>,
      <<Comment("c1", "best"), Comment("c2", "worst")>>,
      <<Comment("c1", "best"), Comment("c2", "unscorable")>> }

\* analyze_comments_sentiment, then save_snapshot of the scored frame
ScoreAndSaveCall ==
    \E video_id \in {"v1"}, fetched_comments \in ExtremeComments, timestamp \in ClockReads :
        LET df == analyze_comments_sentiment(fetched_comments)
            saved == SaveSnapshot(history, comment_snapshots, video_id, df, timestamp)
        IN  /\ saved.history.seq <= MaxHistoryId
            /\ history' = saved.history
            /\ comment_snapshots' = saved.comment_snapshots
            /\ now' = timestamp
            /\ last_call' = [op |-> "save_snapshot", video_id |-> video_id,
                             comments_df |-> df, timestamp |-> timestamp]
            /\ UNCHANGED <<video_ids, alerts, video_info_cache, alerts_triggered, monitored,
                           cycle, service, tracking>>

NextScore == ScoreAndSaveCall

SpecScore == InitEmpty /\ [][NextScore]_vars

\* check_sentiment_alerts called again and again on a database drawn from DatabaseInits.
NextAlerts == CheckSentimentAlertsCall({-Pct(35), Pct(10)}, {<<>>, <<InvertedThresholds>>})

SpecAlerts == InitDatabase /\ [][NextAlerts]_vars

\* fetch_video_comments(video_id, max_results), called once
FetchVideoCommentsCall ==
    /\ last_call.op = "__init__"
    /\ \E video_id \in Videos, api \in ApiScripts, max_results \in MaxResultsInputs :
          LET f == fetch_video_comments(api, max_results)
          IN  last_call' = [op |-> "fetch_video_comments", video_id |-> video_id,
                            api |-> api, max_results |-> max_results,
                            returned |-> f.returned, printed |-> f.printed,
                            raised |-> f.raised, requests |-> f.requests]
    /\ UNCHANGED <<video_ids, history, comment_snapshots, alerts, video_info_cache, now,
                   alerts_triggered, monitored, cycle, service, tracking>>

NextFetch == FetchVideoCommentsCall

SpecFetch == InitEmpty /\ [][NextFetch]_vars

\* monitor_video(video_id, max_comments, check_alerts) against the script api, no
\* step after the fetch raising; the scripts are those whose fetch is no longer
\* than the longest comment list the scoring of the model takes
MonitorVideoFetchingCall ==
    /\ last_call.op = "__init__"
    /\ \E video_id \in Videos, api \in ApiScripts, max_comments \in MaxResultsInputs,
          alerting \in BOOLEAN, t \in ClockReads :
          LET f == fetch_video_comments(api, max_comments)
              m == MonitorVideo(history, comment_snapshots, alerts, video_id, f.returned,
                                alerting, t, t)
          IN  /\ Len(f.returned) <= MaxFetched
              /\ history' = m.history
              /\ comment_snapshots' = m.comment_snapshots
              /\ alerts' = m.alerts
              /\ alerts_triggered' = IF m.checked THEN m.triggered ELSE alerts_triggered
              /\ now' = IF m.result.status = "success" THEN t ELSE now
              /\ monitored' = [monitored EXCEPT ![video_id] =
                                  IF m.result.status = "success"
                                  THEN Append(@, m.result.avg_sentiment) ELSE <<>>]
              /\ last_call' = [op |-> "monitor_video", video_id |-> video_id,
                               api |-> api, max_comments |-> max_comments,
                               comments |-> f.returned, printed |-> f.printed,
                               check_alerts |-> alerting, timestamp |-> t,
                               result |-> m.result]
    /\ UNCHANGED <<video_ids, video_info_cache, cycle, service, tracking>>

NextFetching == MonitorVideoFetchingCall

SpecFetching == InitEmpty /\ [][NextFetching]_vars

\* alerts tables left by earlier check_sentiment_alerts calls: none; one alert; the
\* same alert twice in one clock value and again later; two videos, the second with
\* both threshold alerts of one call
AlertTableInits ==
    LET negative == Alert("negative_threshold", -Pct(30), -Pct(35))
        both == <<Alert("negative_threshold", Pct(20), Pct(10)),
                  Alert("positive_threshold", -Pct(30), Pct(10))>>
        one == SaveAlerts(<<>>, "v1", <<negative>>, 0)
    IN  {<<>>, one,
         SaveAlerts(SaveAlerts(one, "v1", <<negative>>, 0), "v1", <<negative>>, 2),
         SaveAlerts(one, "v2", both, 1)}

\* a monitor constructed on a database and an alerts table earlier runs left behind
InitQuery ==
    \E db \in DatabaseInits, alert_rows \in AlertTableInits :
        MonitorWith(db, alert_rows, {}, <<>>) /\ service = NoService

\* get_sentiment_history(video_id, hours), called once
GetSentimentHistoryCall ==
    /\ last_call.op = "__init__"
    /\ \E video_id \in Videos, hours \in HoursInputs, t_now \in ClockReads :
          /\ \E df \in get_sentiment_history(history, video_id, hours, t_now) :
                last_call' = [op |-> "get_sentiment_history", video_id |-> video_id,
                              hours |-> hours, now |-> t_now, returned |-> df]
          /\ now' = t_now
    /\ UNCHANGED <<video_ids, history, comment_snapshots, alerts, video_info_cache,
                   alerts_triggered, monitored, cycle, service, tracking>>

\* get_recent_alerts(hours), called once
GetRecentAlertsCall ==
    /\ last_call.op = "__init__"
    /\ \E hours \in HoursInputs, t_now \in ClockReads :
          /\ \E df \in get_recent_alerts(alerts, hours, t_now) :
                last_call' = [op |-> "get_recent_alerts", hours |-> hours, now |-> t_now,
                              returned |-> df]
          /\ now' = t_now
    /\ UNCHANGED <<video_ids, history, comment_snapshots, alerts, video_info_cache,
                   alerts_triggered, monitored, cycle, service, tracking>>

NextQuery == GetSentimentHistoryCall \/ GetRecentAlertsCall

SpecQuery == InitQuery /\ [][NextQuery]_vars

\* a monitor constructed with a list of videos on a database, an alerts table and
\* a title cache earlier runs left behind
InitFrame ==
    \E db \in DatabaseInits, alert_rows \in {<<>>} \cup {a \in AlertTableInits : Len(a) = 1},
       cached \in {{}, {"v1"}}, ids \in TrackedInits :
        MonitorWith(db, alert_rows, cached, ids) /\ service = NoService

NextFrame == EvalCheckSentimentAlerts

SpecFrame == InitFrame /\ [][NextFrame]_vars

(***************************************************************************)
(* sentiment_analyzer.categorize_sentiment.                                *)
(***************************************************************************)
\* config.SENTIMENT_THRESHOLD_POSITIVE and config.SENTIMENT_THRESHOLD_NEGATIVE
SENTIMENT_THRESHOLD_POSITIVE == Pct(10)

SENTIMENT_THRESHOLD_NEGATIVE == -Pct(10)

\* an optional argument: <<>> is None, <<x>> is the value x
ArgumentOr(argument, default) == IF argument = <<>> THEN default ELSE argument[1]

\* the slip of a non-strict test against negative_threshold
categorize_sentiment_NonStrict(polarity, positive_threshold, negative_threshold) ==
    LET pos == ArgumentOr(positive_threshold, SENTIMENT_THRESHOLD_POSITIVE)
        neg == ArgumentOr(negative_threshold, SENTIMENT_THRESHOLD_NEGATIVE)
    IN  IF polarity < -Pct(50) THEN "Very Negative"
        ELSE IF polarity <= neg THEN "Negative"
        ELSE IF polarity <= pos THEN "Neutral"
        ELSE IF polarity <= Pct(50) THEN "Positive"
        ELSE "Very Positive"

categorize_sentiment(polarity, positive_threshold, negative_threshold) ==
    LET pos == ArgumentOr(positive_threshold, SENTIMENT_THRESHOLD_POSITIVE)
        neg == ArgumentOr(negative_threshold, SENTIMENT_THRESHOLD_NEGATIVE)
    IN  IF polarity < -Pct(50) THEN "Very Negative"
        ELSE IF polarity < neg THEN "Negative"
        ELSE IF polarity <= pos THEN "Neutral"
        ELSE IF polarity <= Pct(50) THEN "Positive"
        ELSE "Very Positive"

\* the polarities of the model: every multiple of 1/Unit in [-1, 1]
PolarityInputs == (-Unit)..Unit

PositiveThresholdArguments == {<<>>, <<Pct(10)>>, <<Pct(30)>>}

NegativeThresholdArguments == {<<>>, <<-Pct(10)>>, <<-Pct(30)>>}

CategorizeSentimentCall ==
    /\ last_call.op = "__init__"
    /\ \E polarity \in PolarityInputs, positive_threshold \in PositiveThresholdArguments,
          negative_threshold \in NegativeThresholdArguments :
          last_call' = [op |-> "categorize_sentiment", polarity |-> polarity,
                        positive_threshold |-> positive_threshold,
                        negative_threshold |-> negative_threshold,
                        category |-> categorize_sentiment(polarity, positive_threshold,
                                                          negative_threshold)]
    /\ UNCHANGED <<video_ids, history, comment_snapshots, alerts, video_info_cache, now,
                   alerts_triggered, monitored, cycle, service, tracking>>

NextCategorize == CategorizeSentimentCall

SpecCategorize == InitEmpty /\ [][NextCategorize]_vars

(***************************************************************************)
(* monitor_all_videos, one step of monitor_video at a time.                *)
(***************************************************************************)
\* what fetch_video_comments returns in the cycles of the model
CycleFetches == {<<>>, <<Comment("c1", "great"), Comment("c2", "meh")>>,
                 <<Comment("c1", "awful")>>}

\* what str(e) gives for the exceptions of the model
Exceptions == {"database is locked"}

\* the slip of recording the status without the message
ErrorRecord_NoMessage(video_id, e) == [video_id |-> video_id, status |-> "error"]

ErrorRecord(video_id, e) == [video_id |-> video_id, status |-> "error", error |-> e]

\* the video at work
VideoAtWork == video_ids[idx]

\* results.append(record): the video at work is done, the loop goes on to the next
\* entry of video_ids, or monitor_all_videos returns after the last one
AppendResult(record, steps, cs) ==
    /\ results' = Append(results, record)
    /\ raised' = Append(raised, steps)
    /\ fetched' = Append(fetched, cs)
    /\ raising' = {}
    /\ comments' = <<>>
    /\ comments_df' = <<>>
    /\ monitored' = [monitored EXCEPT ![VideoAtWork] =
                        IF record.status = "success"
                        THEN Append(@, record.avg_sentiment) ELSE <<>>]
    /\ IF idx < Len(video_ids)
       THEN idx' = idx + 1 /\ pc' = "title"
       ELSE idx' = 0 /\ pc' = "idle"
    /\ UNCHANGED <<video_ids, monitor_calls, check_alerts>>

\* the slip of leaving out the try/except around monitor_video: the exception
\* ends the loop and leaves monitor_all_videos
CatchException_Propagates(step, e) ==
    /\ last_call' = [op |-> "monitor_all_videos", raised |-> e]
    /\ results' = <<>>
    /\ raised' = <<>>
    /\ fetched' = <<>>
    /\ raising' = {}
    /\ comments' = <<>>
    /\ comments_df' = <<>>
    /\ idx' = 0
    /\ pc' = "idle"
    /\ UNCHANGED <<video_ids, monitor_calls, check_alerts, monitored>>

\* except Exception as e: an exception that left monitor_video at a step becomes the
\* error record of the video
CatchException(step, e) ==
    /\ last_call' = [op |-> "monitor_video", video_id |-> VideoAtWork,
                     comments |-> comments, check_alerts |-> check_alerts,
                     result |-> [video_id |-> VideoAtWork, status |-> "raised",
                                 error |-> e]]
    /\ AppendResult(ErrorRecord(VideoAtWork, e), raising \cup {step}, comments)

\* monitor_video returns a record
ReturnRecord(record, steps, cs) ==
    /\ last_call' = [op |-> "monitor_video", video_id |-> VideoAtWork,
                     comments |-> cs, check_alerts |-> check_alerts,
                     result |-> record]
    /\ AppendResult(record, steps, cs)

\* monitor_all_videos(max_comments, check_alerts) is called
MonitorAllVideos ==
    /\ pc = "idle"
    /\ UNCHANGED <<service, tracking>>
    /\ monitor_calls + Len(video_ids) <= MaxMonitorCalls
    /\ monitor_calls' = monitor_calls + Len(video_ids)
    /\ \E c \in BOOLEAN : check_alerts' = c
    /\ results' = <<>>
    /\ raised' = <<>>
    /\ fetched' = <<>>
    /\ IF video_ids = <<>>
       THEN idx' = 0 /\ pc' = "idle"
       ELSE idx' = 1 /\ pc' = "title"
    /\ last_call' = [op |-> "monitor_all_videos"]
    /\ UNCHANGED <<video_ids, history, comment_snapshots, alerts, video_info_cache, now,
                   alerts_triggered, monitored, comments, comments_df, raising>>

\* get_video_title: the cache lookup, and on a miss the API request of get_video_info,
\* whose exceptions get_video_info catches itself (the title is then the video id)
GetVideoTitle ==
    /\ pc = "title"
    /\ UNCHANGED <<service, tracking>>
    /\ \E api \in {"found", "raises"} :
          /\ video_info_cache' =
                GetVideoTitleCache(video_info_cache, VideoAtWork, api = "found")
          /\ raising' = IF api = "raises" /\ VideoAtWork \notin video_info_cache
                        THEN raising \cup {"title_api"} ELSE raising
    /\ pc' = "fetch"
    /\ UNCHANGED <<video_ids, history, comment_snapshots, alerts, now, last_call,
                   alerts_triggered, monitored, monitor_calls, check_alerts, idx, results,
                   comments, comments_df, raised, fetched>>

\* get_video_title: a store access of the lookup raises
GetVideoTitleRaises ==
    /\ pc = "title"
    /\ UNCHANGED <<service, tracking>>
    /\ \E e \in Exceptions : CatchException("title", e)
    /\ UNCHANGED <<history, comment_snapshots, alerts, video_info_cache, now,
                   alerts_triggered>>

\* fetch_video_comments: it returns the comments collected; an exception of a request
\* (failed) is caught inside it, and it returns what it collected before
FetchVideoComments ==
    /\ pc = "fetch"
    /\ UNCHANGED <<service, tracking>>
    /\ \E cs \in CycleFetches, failed \in BOOLEAN :
          IF cs = <<>>
             THEN ReturnRecord(NoCommentsRecord(VideoAtWork),
                               IF failed THEN raising \cup {"fetch"} ELSE raising, cs)
             ELSE /\ comments' = cs
                  /\ pc' = "score"
                  /\ raising' = IF failed THEN raising \cup {"fetch"} ELSE raising
                  /\ UNCHANGED <<video_ids, last_call, monitor_calls, check_alerts, idx,
                                 results, comments_df, raised, fetched, monitored>>
    /\ UNCHANGED <<history, comment_snapshots, alerts, video_info_cache, now,
                   alerts_triggered>>

\* the slip of checking the alerts before the snapshot is saved
AnalyzeCommentsSentiment_SkipsPersist ==
    /\ pc = "score"
    /\ UNCHANGED <<service, tracking>>
    /\ comments_df' = analyze_comments_sentiment(comments)
    /\ pc' = "alert"
    /\ UNCHANGED <<video_ids, last_call, monitor_calls, check_alerts, idx, results,
                   comments, raising, raised, fetched, monitored>>
    /\ UNCHANGED <<history, comment_snapshots, alerts, video_info_cache, now,
                   alerts_triggered>>

\* analyze_comments_sentiment
AnalyzeCommentsSentiment ==
    /\ pc = "score"
    /\ UNCHANGED <<service, tracking>>
    /\ LET df == analyze_comments_sentiment(comments)
       IN  IF df = <<>>
           THEN ReturnRecord(AnalysisFailedRecord(VideoAtWork), raising, comments)
           ELSE /\ comments_df' = df
                /\ pc' = "persist"
                /\ UNCHANGED <<video_ids, last_call, monitor_calls, check_alerts, idx, results,
                               comments, raising, raised, fetched, monitored>>
    /\ UNCHANGED <<history, comment_snapshots, alerts, video_info_cache, now,
                   alerts_triggered>>

\* analyze_comments_sentiment raises
AnalyzeCommentsSentimentRaises ==
    /\ pc = "score"
    /\ UNCHANGED <<service, tracking>>
    /\ \E e \in Exceptions : CatchException("score", e)
    /\ UNCHANGED <<history, comment_snapshots, alerts, video_info_cache, now,
                   alerts_triggered>>

\* save_snapshot, then the metrics of monitor_video
SaveSnapshotStep ==
    /\ pc = "persist"
    /\ UNCHANGED <<service, tracking>>
    /\ \E timestamp \in ClockReads :
          LET saved == SaveSnapshot(history, comment_snapshots, VideoAtWork, comments_df,
                                    timestamp)
          IN  /\ saved.history.seq <= MaxHistoryId
              /\ history' = saved.history
              /\ comment_snapshots' = saved.comment_snapshots
              /\ now' = timestamp
    /\ pc' = "alert"
    /\ UNCHANGED <<video_ids, alerts, video_info_cache, last_call, alerts_triggered, monitored,
                   monitor_calls, check_alerts, idx, results, comments, comments_df, raising,
                   raised, fetched>>

\* what the connection of save_snapshot has written, uncommitted, when an exception
\* leaves the call: the first k comment rows, and for k > len(comments_df) the
\* history row as well
PendingSnapshot(hist, snaps, video_id, df, timestamp, k) ==
    [history |-> IF k > Len(df)
                 THEN InsertOrReplaceHistory(hist, HistoryEntry(video_id, df, timestamp))
                 ELSE hist,
     comment_snapshots |->
        InsertComments(snaps, video_id,
                       SubSeq(df, 1, IF k > Len(df) THEN Len(df) ELSE k), timestamp)]

\* the slip of a connection in autocommit mode: what was written stays
Rollback_Autocommit(committed, pending) == pending

\* the exception leaves save_snapshot before conn.commit(): the transaction of
\* the connection is never committed, no other connection sees its rows, and
\* SQLite rolls it back when the connection object is collected (until then the
\* writes of other connections raise "database is locked")
Rollback(committed, pending) == committed

\* save_snapshot raises before its commit, after k rows were written
SaveSnapshotRaises ==
    /\ pc = "persist"
    /\ UNCHANGED <<service, tracking>>
    /\ \E k \in 0..(Len(comments_df) + 1) :
          LET store == Rollback([history |-> history,
                                 comment_snapshots |-> comment_snapshots],
                                PendingSnapshot(history, comment_snapshots, VideoAtWork,
                                                comments_df, now, k))
          IN  /\ history' = store.history
              /\ comment_snapshots' = store.comment_snapshots
    /\ \E e \in Exceptions : CatchException("persist", e)
    /\ UNCHANGED <<alerts, video_info_cache, now, alerts_triggered>>

\* check_sentiment_alerts when check_alerts is set, then the success record
CheckSentimentAlertsStep ==
    /\ pc = "alert"
    /\ UNCHANGED <<service, tracking>>
    /\ \E timestamp \in ClockReads :
          LET triggered == IF check_alerts
                           THEN AlertsTriggered(history, VideoAtWork,
                                                MeanPolarity(comments_df), MonitorThresholds)
                           ELSE <<>>
          IN  /\ Len(alerts) + Len(triggered) <= MaxAlerts
              /\ check_alerts \/ timestamp = now
              /\ alerts' = SaveAlerts(alerts, VideoAtWork, triggered, timestamp)
              /\ alerts_triggered' = IF check_alerts THEN triggered ELSE alerts_triggered
              /\ now' = timestamp
              /\ ReturnRecord(SuccessRecord(VideoAtWork, comments_df, triggered), raising,
                              comments)
    /\ UNCHANGED <<history, comment_snapshots, video_info_cache>>

\* check_sentiment_alerts raises before its commit: no alert row is written
CheckSentimentAlertsRaises ==
    /\ pc = "alert"
    /\ UNCHANGED <<service, tracking>>
    /\ check_alerts
    /\ \E e \in Exceptions : CatchException("alert", e)
    /\ UNCHANGED <<history, comment_snapshots, alerts, video_info_cache, now,
                   alerts_triggered>>

Next ==
    \/ MonitorAllVideos
    \/ GetVideoTitle
    \/ GetVideoTitleRaises
    \/ FetchVideoComments
    \/ AnalyzeCommentsSentiment
    \/ AnalyzeCommentsSentimentRaises
    \/ SaveSnapshotStep
    \/ SaveSnapshotRaises
    \/ CheckSentimentAlertsStep
    \/ CheckSentimentAlertsRaises

Spec == Init /\ [][Next]_vars

\* save_snapshot(video_id, comments_df) called with an empty frame
SaveEmptySnapshotCall ==
    /\ last_call.op = "__init__"
    /\ SaveSnapshotCall
    /\ last_call'.comments_df = <<>>

\* the cycles of a monitor that tracks one video, save_snapshot being called with
\* an empty frame before them
NextStore == Next \/ SaveEmptySnapshotCall

SpecStore == InitOn(EmptyDatabase, <<"v1">>) /\ [][NextStore]_vars

(***************************************************************************)
(* add_video, remove_video, and monitor_all_videos as one call, between    *)
(* which the tracked list is changed.                                      *)
(***************************************************************************)
\* the videos of a tracked list
Tracked(ids) == {ids[i] : i \in DOMAIN ids}

\* the slip of removing every occurrence
ListRemove_All(ids, video_id) == SelectSeq(ids, LAMBDA v : v # video_id)

\* list.remove(x): the list without the first occurrence of x
RECURSIVE ListRemove(_, _)
ListRemove(ids, video_id) ==
    IF ids = <<>> THEN <<>>
    ELSE IF Head(ids) = video_id THEN Tail(ids)
    ELSE <<Head(ids)>> \o ListRemove(Tail(ids), video_id)

\* the slip of appending without the membership test
AddToList_Always(ids, video_id) == Append(ids, video_id)

\* add_video: the identifier is appended when it is not in the list
AddToList(ids, video_id) == IF video_id \in Tracked(ids) THEN ids ELSE Append(ids, video_id)

\* the slip of leaving a removed identifier in the list
RemoveFromList_Keeps(ids, video_id) == ids

\* remove_video: list.remove when the identifier is in the list
RemoveFromList(ids, video_id) ==
    IF video_id \in Tracked(ids) THEN ListRemove(ids, video_id) ELSE ids

\* add_video(video_id), no cycle running; cache_video_info stores the row when the
\* API returned the video
AddVideo ==
    /\ pc = "idle"
    /\ \E video_id \in Videos, api_found \in BOOLEAN :
          /\ video_ids' = AddToList(video_ids, video_id)
          /\ video_info_cache' = IF video_id \notin Tracked(video_ids) /\ api_found
                                 THEN video_info_cache \cup {video_id}
                                 ELSE video_info_cache
          /\ last_call' = [op |-> "add_video", video_id |-> video_id]
          /\ tracking' = [tracking EXCEPT ![video_id] = "added"]
    /\ UNCHANGED <<history, comment_snapshots, alerts, now, alerts_triggered, monitored,
                   cycle, service>>

\* remove_video(video_id), no cycle running
RemoveVideo ==
    /\ pc = "idle"
    /\ \E video_id \in Videos :
          /\ video_ids' = RemoveFromList(video_ids, video_id)
          /\ last_call' = [op |-> "remove_video", video_id |-> video_id]
          /\ tracking' = [tracking EXCEPT ![video_id] = "removed"]
    /\ UNCHANGED <<history, comment_snapshots, alerts, video_info_cache, now,
                   alerts_triggered, monitored, cycle, service>>

\* what happens to an entry of the list in a cycle of the tracked-list runs: its
\* fetch returns nothing, or one comment, or its title lookup raises
EntryOutcomes == {"no_comments", "comments", "raises"}

EntryFetch(outcome) == IF outcome = "comments" THEN <<Comment("c1", "great")>> ELSE <<>>

\* the for loop of monitor_all_videos over the entries ids, from the state st of the
\* store and of the result list; all clock reads of the cycle give t
RECURSIVE MonitorEach(_, _, _, _, _)
MonitorEach(st, ids, outcomes, alerting, t) ==
    IF ids = <<>> THEN st
    ELSE LET v == Head(ids)
             o == Head(outcomes)
             m == MonitorVideo(st.history, st.comment_snapshots, st.alerts, v,
                               EntryFetch(o), alerting, t, t)
             after ==
                IF o = "raises"
                THEN [st EXCEPT !.results = Append(@, ErrorRecord(v, "database is locked")),
                                !.raised = Append(@, {"title"}),
                                !.fetched = Append(@, <<>>),
                                !.monitored[v] = <<>>]
                ELSE [history |-> m.history,
                      comment_snapshots |-> m.comment_snapshots,
                      alerts |-> m.alerts,
                      alerts_triggered |-> IF m.checked THEN m.triggered
                                           ELSE st.alerts_triggered,
                      results |-> Append(st.results, m.result),
                      raised |-> Append(st.raised, {}),
                      fetched |-> Append(st.fetched, EntryFetch(o)),
                      monitored |-> [st.monitored EXCEPT ![v] =
                                        IF m.result.status = "success"
                                        THEN Append(@, m.result.avg_sentiment) ELSE <<>>]]
         IN  MonitorEach(after, Tail(ids), Tail(outcomes), alerting, t)

\* monitor_all_videos(), from its call to its return; check_alerts has its default
MonitorAllVideosCall ==
    /\ pc = "idle"
    /\ monitor_calls + Len(video_ids) <= MaxMonitorCalls
    /\ \E outcomes \in [1..Len(video_ids) -> EntryOutcomes], alerting \in {TRUE},
          api_found \in BOOLEAN, t \in ClockReads :
          LET st == MonitorEach([history |-> history,
                                 comment_snapshots |-> comment_snapshots,
                                 alerts |-> alerts, alerts_triggered |-> alerts_triggered,
                                 results |-> <<>>, raised |-> <<>>, fetched |-> <<>>,
                                 monitored |-> monitored],
                                video_ids, outcomes, alerting, t)
          IN  /\ st.history.seq <= MaxHistoryId
              /\ Len(st.alerts) <= MaxAlerts
              /\ history' = st.history
              /\ comment_snapshots' = st.comment_snapshots
              /\ alerts' = st.alerts
              /\ alerts_triggered' = st.alerts_triggered
              /\ results' = st.results
              /\ raised' = st.raised
              /\ fetched' = st.fetched
              /\ monitored' = st.monitored
              /\ check_alerts' = alerting
              /\ video_info_cache' =
                    IF api_found
                    THEN video_info_cache
                         \cup {video_ids[i] : i \in {j \in DOMAIN video_ids :
                                                        outcomes[j] # "raises"}}
                    ELSE video_info_cache
              /\ now' = IF video_ids = <<>> THEN now ELSE t
    /\ monitor_calls' = monitor_calls + Len(video_ids)
    /\ last_call' = [op |-> "monitor_all_videos"]
    /\ UNCHANGED <<video_ids, pc, idx, comments, comments_df, raising, service, tracking>>

NextTracked == AddVideo \/ RemoveVideo \/ MonitorAllVideosCall

SpecTracked == Init /\ [][NextTracked]_vars

(***************************************************************************)
(* monitor_service.py.  The file is not a Python program: the try          *)
(* statement of line 121 is indented one level deeper than the statements  *)
(* before it and than its own except clause (line 149), so compiling the   *)
(* file raises IndentationError (unexpected indent) before any statement   *)
(* of it runs.  No import, no MonitoringService, no load_config, no start. *)
(***************************************************************************)
\* monitoring_config.json: absent (<<>>), or the values load_config reads from it,
\* and the alert thresholds a file may carry, for which load_config has no line
ConfigFiles ==
    {<<>>} \cup
    {<<[api_key |-> k, video_ids |-> ids, interval_minutes |-> i, check_alerts |-> c,
        alert_thresholds |-> th]>> :
        k \in {"", "KEY"}, ids \in TrackedInits, i \in {1, 30}, c \in BOOLEAN,
        th \in {<<>>, <<CustomThresholds>>}}

\* the environment variable YOUTUBE_API_KEY, which is also DEFAULT_YOUTUBE_API_KEY
EnvironmentKeys == {"", "KEY"}

\* before `python monitor_service.py`: cycles counts the monitor_all_videos calls of
\* the service, fetches its fetch_video_comments calls
InitService ==
    /\ MonitorOn(EmptyDatabase, <<>>)
    /\ \E config \in ConfigFiles, key \in EnvironmentKeys :
          service = [pc |-> "not_launched", config |-> config, env_key |-> key,
                     cycles |-> 0, fetches |-> 0]

\* python monitor_service.py: the compiler rejects the file and the process ends
LaunchService ==
    /\ service.pc = "not_launched"
    /\ service' = [service EXCEPT !.pc = "IndentationError"]
    /\ UNCHANGED <<video_ids, history, comment_snapshots, alerts, video_info_cache, now,
                   last_call, alerts_triggered, monitored, cycle, tracking>>

NextService == LaunchService

SpecService == InitService /\ [][NextService]_vars

\* a deployment with monitoring_config.json in place: the service is launched, and
\* the monitor is driven directly, as the dashboard drives it
InitConfigured ==
    /\ MonitorOn(EmptyDatabase, <<>>)
    /\ \E config \in ConfigFiles, key \in {"KEY"} :
          /\ config # <<>> => /\ config[1].api_key = "KEY"
                              /\ config[1].interval_minutes = 30
                              /\ config[1].check_alerts
          /\ service = [pc |-> "not_launched", config |-> config, env_key |-> key,
                        cycles |-> 0, fetches |-> 0]

NextConfigured == LaunchService \/ EvalMonitorVideo

SpecConfigured == InitConfigured /\ [][NextConfigured]_vars

(***************************************************************************)
(* Vocabulary of the properties.                                           *)
(***************************************************************************)
LastIsCheck == last_call.op = "check_sentiment_alerts"
LastIsSave == last_call.op = "save_snapshot"
LastIsMonitor == last_call.op = "monitor_video"

\* the rows of a video in the history table, and those with the greatest timestamp
RowsOf(video_id) == {r \in history.rows : r.video_id = video_id}
LatestRowsOf(video_id) ==
    {r \in RowsOf(video_id) : \A q \in RowsOf(video_id) : q.timestamp <= r.timestamp}

\* the positions of the alerts of a type in a returned list
OfType(list, type) == {i \in 1..Len(list) : list[i].type = type}

\* the thresholds a call works with, the documented defaults standing for none
GivenThresholds(thresholds) ==
    IF thresholds = <<>>
    THEN [negative_threshold |-> -(3 * Unit) \div 10, positive_threshold |-> Unit \div 2,
          drop_threshold |-> Unit \div 5, rise_threshold |-> Unit \div 5]
    ELSE thresholds[1]

(***************************************************************************)
(* C2: check_sentiment_alerts(video, c, thresholds), called when the most  *)
(* recent history entry of the video has avg_sentiment p, returns a        *)
(* sentiment_drop alert exactly when c - p < -drop_threshold and a         *)
(* sentiment_rise alert exactly when c - p > rise_threshold, each once,    *)
(* with value c - p and the respective threshold; p = 0.4, c = 0.1 and the *)
(* default thresholds give the single alert sentiment_drop with value -0.3.*)
(***************************************************************************)
C2_DeltaAlerts ==
    LastIsCheck =>
        \A r \in LatestRowsOf(last_call.video_id) :
            LET c == last_call.current_sentiment
                p == r.avg_sentiment
                th == GivenThresholds(last_call.thresholds)
                drops == OfType(alerts_triggered, "sentiment_drop")
                rises == OfType(alerts_triggered, "sentiment_rise")
            IN  /\ (drops # {}) <=> (c - p < -th.drop_threshold)
                /\ (rises # {}) <=> (c - p > th.rise_threshold)
                /\ Cardinality(drops) <= 1 /\ Cardinality(rises) <= 1
                /\ \A i \in drops : /\ alerts_triggered[i].value = c - p
                                    /\ alerts_triggered[i].threshold = th.drop_threshold
                /\ \A i \in rises : /\ alerts_triggered[i].value = c - p
                                    /\ alerts_triggered[i].threshold = th.rise_threshold
                /\ (p = (4 * Unit) \div 10 /\ c = Unit \div 10 /\ last_call.thresholds = <<>>)
                     => alerts_triggered =
                          <<[type |-> "sentiment_drop", threshold |-> Unit \div 5,
                             value |-> -(3 * Unit) \div 10]>>

\* the call of the example: previous 0.4, current 0.1, one sentiment_drop of -0.3
C2_Witness ==
    /\ LastIsCheck
    /\ last_call.current_sentiment = Unit \div 10
    /\ last_call.thresholds = <<>>
    /\ \E r \in LatestRowsOf(last_call.video_id) : r.avg_sentiment = (4 * Unit) \div 10
    /\ Len(alerts_triggered) = 1
    /\ alerts_triggered[1].type = "sentiment_drop"
    /\ alerts_triggered[1].value = -(3 * Unit) \div 10

(***************************************************************************)
(* C3: when the video has no history entry, check_sentiment_alerts returns *)
(* no sentiment_drop and no sentiment_rise alert, whatever the current     *)
(* value and the thresholds; and a successful monitor_video of a video     *)
(* that had no history entry before it returns no delta-based alert.       *)
(***************************************************************************)
NoDeltaAlerts(list) ==
    OfType(list, "sentiment_drop") = {} /\ OfType(list, "sentiment_rise") = {}

C3_Step ==
    /\ (last_call'.op = "check_sentiment_alerts" /\ RowsOf(last_call'.video_id) = {})
          => NoDeltaAlerts(alerts_triggered')
    /\ (/\ last_call'.op = "monitor_video"
        /\ last_call'.result.status = "success"
        /\ last_call'.check_alerts
        /\ RowsOf(last_call'.video_id) = {})
          => /\ NoDeltaAlerts(alerts_triggered')
             /\ \A i \in (Len(alerts) + 1)..Len(alerts') :
                    alerts'[i].alert_type \notin {"sentiment_drop", "sentiment_rise"}

C3_NoDeltaWithoutHistory == [][C3_Step]_vars

\* a first observation that raised an alert, and none of them a delta alert
C3_Witness ==
    /\ LastIsMonitor
    /\ last_call.result.status = "success"
    /\ last_call.check_alerts
    /\ Cardinality(RowsOf(last_call.video_id)) = 1
    /\ history.seq = 1
    /\ alerts_triggered # <<>>
    /\ NoDeltaAlerts(alerts_triggered)

(***************************************************************************)
(* C4: check_sentiment_alerts returns a negative_threshold alert exactly   *)
(* when current < negative_threshold and a positive_threshold alert        *)
(* exactly when current > positive_threshold, both strict, each once, with *)
(* value current and the respective threshold: -0.35 against -0.3 gives    *)
(* negative_threshold with value -0.35, -0.25 gives none.                  *)
(***************************************************************************)
C4_AbsoluteAlerts ==
    LastIsCheck =>
        LET c == last_call.current_sentiment
            th == GivenThresholds(last_call.thresholds)
            negs == OfType(alerts_triggered, "negative_threshold")
            poss == OfType(alerts_triggered, "positive_threshold")
        IN  /\ (negs # {}) <=> (c < th.negative_threshold)
            /\ (poss # {}) <=> (c > th.positive_threshold)
            /\ Cardinality(negs) <= 1 /\ Cardinality(poss) <= 1
            /\ \A i \in negs : /\ alerts_triggered[i].value = c
                               /\ alerts_triggered[i].threshold = th.negative_threshold
            /\ \A i \in poss : /\ alerts_triggered[i].value = c
                               /\ alerts_triggered[i].threshold = th.positive_threshold
            /\ (c = th.negative_threshold => negs = {})
            /\ (c = th.positive_threshold => poss = {})

\* the call of the example: -0.35 against the default -0.3
C4_Witness ==
    /\ LastIsCheck
    /\ last_call.thresholds = <<>>
    /\ last_call.current_sentiment = -(35 * Unit) \div 100
    /\ \E i \in 1..Len(alerts_triggered) :
          /\ alerts_triggered[i].type = "negative_threshold"
          /\ alerts_triggered[i].value = -(35 * Unit) \div 100
          /\ alerts_triggered[i].threshold = -(3 * Unit) \div 10

(***************************************************************************)
(* C5: every call of check_sentiment_alerts appends to the alerts table    *)
(* exactly one row per alert it returns, in order, with the call's video,  *)
(* the alert's type, threshold and value, and changes no earlier row; it   *)
(* does not deduplicate: a call with the inputs of the call before it      *)
(* returns the same alerts and appends their rows again.                   *)
(***************************************************************************)
RowMatches(row, video_id, alert) ==
    /\ row.video_id = video_id
    /\ row.alert_type = alert.type
    /\ row.threshold = alert.threshold
    /\ row.current_value = alert.value

C5_Step ==
    last_call'.op = "check_sentiment_alerts" =>
        /\ Len(alerts') = Len(alerts) + Len(alerts_triggered')
        /\ \A k \in 1..Len(alerts) : alerts'[k] = alerts[k]
        /\ \A k \in 1..Len(alerts_triggered') :
              /\ RowMatches(alerts'[Len(alerts) + k], last_call'.video_id,
                            alerts_triggered'[k])
              /\ alerts'[Len(alerts) + k].timestamp = last_call'.timestamp
        /\ (/\ last_call.op = "check_sentiment_alerts"
            /\ last_call.video_id = last_call'.video_id
            /\ last_call.current_sentiment = last_call'.current_sentiment
            /\ last_call.thresholds = last_call'.thresholds)
              => alerts_triggered' = alerts_triggered

C5_AlertsAppended == [][C5_Step]_vars

\* the table holds the rows of the last returned list twice over
C5_Witness ==
    /\ LastIsCheck
    /\ alerts_triggered # <<>>
    /\ Len(alerts) = 2 * Len(alerts_triggered)
    /\ \A k \in 1..Len(alerts_triggered) :
          /\ RowMatches(alerts[k], last_call.video_id, alerts_triggered[k])
          /\ RowMatches(alerts[Len(alerts_triggered) + k], last_call.video_id,
                        alerts_triggered[k])

(***************************************************************************)
(* C6: the history table never holds two rows with the same (video_id,     *)
(* timestamp); a save_snapshot for a key leaves exactly one row for that   *)
(* key, with the avg_sentiment and the counts of this write, and leaves    *)
(* the rows of every other key as they were.                               *)
(***************************************************************************)
HistoryKeysUnique ==
    \A r, q \in history.rows :
        (r.video_id = q.video_id /\ r.timestamp = q.timestamp) => r = q

SameHistoryKey(r, video_id, timestamp) == r.video_id = video_id /\ r.timestamp = timestamp

C6_Step ==
    (last_call'.op = "save_snapshot" /\ last_call'.comments_df # <<>>) =>
        LET v == last_call'.video_id
            t == last_call'.timestamp
            df == last_call'.comments_df
            mine == {r \in history'.rows : SameHistoryKey(r, v, t)}
        IN  /\ Cardinality(mine) = 1
            /\ \A r \in mine :
                  /\ r.avg_sentiment * Len(df) = SumPolarity(df)
                  /\ r.total_comments = Len(df)
                  /\ r.positive_count =
                        Cardinality({i \in 1..Len(df) : 10 * df[i].Polarity > Unit})
                  /\ r.negative_count =
                        Cardinality({i \in 1..Len(df) : 10 * df[i].Polarity < -Unit})
                  /\ r.neutral_count =
                        Cardinality({i \in 1..Len(df) : /\ 10 * df[i].Polarity <= Unit
                                                        /\ 10 * df[i].Polarity >= -Unit})
            /\ {r \in history'.rows : ~SameHistoryKey(r, v, t)}
                  = {r \in history.rows : ~SameHistoryKey(r, v, t)}

C6_HistoryReplace == []HistoryKeysUnique /\ [][C6_Step]_vars

\* a second write for a key: the history row is the one of this write, while the
\* snapshot of the comment still holds the sentiment of the first write
C6_Witness ==
    /\ LastIsSave
    /\ last_call.comments_df # <<>>
    /\ Cardinality(history.rows) >= 2
    /\ \E r \in history.rows :
          /\ SameHistoryKey(r, last_call.video_id, last_call.timestamp)
          /\ r.avg_sentiment * Len(last_call.comments_df) = SumPolarity(last_call.comments_df)
    /\ \E s \in comment_snapshots.rows :
          /\ s.video_id = last_call.video_id
          /\ s.timestamp = last_call.timestamp
          /\ s.comment_id = last_call.comments_df[1].comment_id
          /\ s.sentiment # last_call.comments_df[1].Polarity

(***************************************************************************)
(* C7: the comment_snapshots table never holds two rows with the same      *)
(* (video_id, comment_id, timestamp); save_snapshot leaves every existing  *)
(* row as it was, adds rows only for keys that had none, and persisting    *)
(* comments whose keys all have a row leaves the table unchanged.          *)
(***************************************************************************)
SnapshotKeysUnique ==
    \A r, q \in comment_snapshots.rows :
        (/\ r.video_id = q.video_id
         /\ r.comment_id = q.comment_id
         /\ r.timestamp = q.timestamp) => r = q

HasSnapshot(rows, video_id, comment_id, timestamp) ==
    \E r \in rows : /\ r.video_id = video_id
                    /\ r.comment_id = comment_id
                    /\ r.timestamp = timestamp

C7_Step ==
    (last_call'.op = "save_snapshot" /\ last_call'.comments_df # <<>>) =>
        LET v == last_call'.video_id
            t == last_call'.timestamp
            df == last_call'.comments_df
            old == comment_snapshots.rows
            new == comment_snapshots'.rows
        IN  /\ old \subseteq new
            /\ \A r \in new \ old :
                  /\ r.video_id = v /\ r.timestamp = t
                  /\ \E i \in 1..Len(df) : df[i].comment_id = r.comment_id
                  /\ ~HasSnapshot(old, v, r.comment_id, t)
            /\ \A i \in 1..Len(df) : HasSnapshot(new, v, df[i].comment_id, t)
            /\ (\A i \in 1..Len(df) : HasSnapshot(old, v, df[i].comment_id, t))
                  => (new = old /\ Cardinality(new) = Cardinality(old))

C7_SnapshotsIgnore == []SnapshotKeysUnique /\ [][C7_Step]_vars

\* the same frame persisted twice for one (video_id, timestamp): the second call
\* replaced the history row and added no snapshot row
C7_Witness ==
    /\ LastIsSave
    /\ last_call.comments_df # <<>>
    /\ history.seq = 2
    /\ Cardinality(history.rows) = 1
    /\ comment_snapshots.seq = Len(last_call.comments_df)
    /\ Cardinality(comment_snapshots.rows) = Len(last_call.comments_df)
    /\ \A i \in 1..Len(last_call.comments_df) :
          \E s \in comment_snapshots.rows :
              /\ s.video_id = last_call.video_id
              /\ s.timestamp = last_call.timestamp
              /\ s.comment_id = last_call.comments_df[i].comment_id
              /\ s.comment_text = last_call.comments_df[i].comment_text
              /\ s.sentiment = last_call.comments_df[i].Polarity

CycleReturned == pc = "idle" /\ last_call.op # "__init__"

\* the steps whose exceptions leave monitor_video
EscapingSteps == {"title", "score", "persist", "alert"}

\* C1: with alert checking on, when two successful monitor_video runs in a row of a
\* video store the averages a1 and then a2, the second run emits a sentiment_drop
\* alert exactly when a2 - a1 < -0.2 and a sentiment_rise alert exactly when
\* a2 - a1 > 0.2
C1_DeltaAgainstPrecedingCycle ==
    (/\ LastIsMonitor
     /\ last_call.result.status = "success"
     /\ last_call.check_alerts
     /\ Len(monitored[last_call.video_id]) >= 2)
    => LET runs == monitored[last_call.video_id]
           a2 == runs[Len(runs)]
           a1 == runs[Len(runs) - 1]
       IN  /\ (OfType(alerts_triggered, "sentiment_drop") # {}) <=> (a2 - a1 < -Pct(20))
           /\ (OfType(alerts_triggered, "sentiment_rise") # {}) <=> (a2 - a1 > Pct(20))

\* the record monitor_video gives a video processed on its own, on an empty database
RecordOnItsOwn(video_id, cs) ==
    MonitorVideo(EmptyDatabase.history, EmptyDatabase.comment_snapshots, <<>>, video_id, cs,
                 check_alerts, 0, 0).result

\* C9: monitor_all_videos gives one record per entry of video_ids, in the order of
\* the list, and as many records as entries when it returns; a video whose fetch
\* failed or whose processing raised has its record, and every other record is the
\* one its video gets when processed on its own
C9_OneRecordPerEntry ==
    /\ Len(results) <= Len(video_ids)
    /\ pc # "idle" => Len(results) = idx - 1
    /\ CycleReturned => Len(results) = Len(video_ids)
    /\ \A i \in 1..Len(results) :
          /\ results[i].video_id = video_ids[i]
          /\ results[i].status \in {"success", "no_comments", "analysis_failed", "error"}
          /\ results[i].status # "error" =>
                results[i] = RecordOnItsOwn(video_ids[i], fetched[i])

\* a cycle over three entries: the fetch of the first fails, the processing of the
\* second raises, the third succeeds
C9_Witness ==
    /\ CycleReturned
    /\ Len(results) = 3
    /\ "fetch" \in raised[1] /\ results[1].status = "no_comments"
    /\ results[2].status = "error"
    /\ results[3].status = "success"

\* C10 as stated: an exception raised in any step of a video's processing, the fetch
\* and the title request included, gives the video an error record
C10_AnyStepError ==
    \A i \in 1..Len(results) : raised[i] # {} => results[i].status = "error"

\* C10: an exception that leaves monitor_video (raised by the store access of the
\* title lookup, the scoring, the persistence or the alert evaluation) gives the
\* video the record with status 'error' and the message of the exception, does not
\* leave monitor_all_videos, and the entries after it get their records; an exception
\* raised inside fetch_video_comments or get_video_info is caught there and gives no
\* error record
C10_EscapingExceptionBecomesError ==
    /\ \A i \in 1..Len(results) :
          /\ raised[i] \cap EscapingSteps # {} =>
                /\ results[i].status = "error"
                /\ "error" \in DOMAIN results[i]
                /\ results[i].error \in Exceptions
          /\ raised[i] \cap EscapingSteps = {} => results[i].status # "error"
    /\ last_call.op = "monitor_all_videos" => DOMAIN last_call = {"op"}
    /\ CycleReturned => Len(results) = Len(video_ids)

\* the persistence of the first of two entries raised: it has its error record and
\* the second entry was processed
C10_Witness ==
    /\ CycleReturned
    /\ Len(results) = 2
    /\ "persist" \in raised[1] /\ results[1].status = "error"
    /\ results[2].status = "success"

(***************************************************************************)
(* fetch_video_comments.                                                   *)
(***************************************************************************)
LastIsFetch == last_call.op = "fetch_video_comments"

\* the failure kind of a fetch, as its except clauses tell the kinds apart
FetchKind(printed) ==
    CASE printed = "" -> "none"
      [] printed = "API quota exceeded or access denied" -> "access_denied"
      [] printed \in {"Video not found", "Video not found or not accessible"} -> "not_found"
      [] OTHER -> "generic"

\* a fetch that failed, or one that succeeded and found no comments
FailedOrEmpty(printed, returned) == FetchKind(printed) # "none" \/ returned = <<>>

\* C11: fetch_video_comments never raises, and what it returns tells the caller the
\* failure kinds access-denied/quota-exceeded, not-found and generic failure from
\* one another and from a successful fetch that found no comments: two fetches of
\* different kinds return different values
C11_FailureKindsDistinguished ==
    LastIsFetch =>
        /\ ~last_call.raised
        /\ FailedOrEmpty(last_call.printed, last_call.returned) =>
              \A api \in ApiScripts :
                 LET other == fetch_video_comments(api, last_call.max_results)
                 IN  (/\ FailedOrEmpty(other.printed, other.returned)
                      /\ FetchKind(other.printed) # FetchKind(last_call.printed))
                     => other.returned # last_call.returned

(***************************************************************************)
(* monitor_video: its records.                                             *)
(***************************************************************************)
\* the fields of the metrics of a record
MetricFields ==
    {"total_comments", "avg_sentiment", "positive_pct", "negative_pct", "neutral_pct",
     "alerts"}

\* C12: a record monitor_video returns has one of the statuses no_comments,
\* analysis_failed and success: no_comments exactly when the fetch returned the
\* empty sequence, analysis_failed exactly when the fetch was non-empty and the
\* scoring gave the empty frame, success otherwise; the success records carry the
\* metrics (total_comments, avg_sentiment, the three percentages, the alert count)
\* and no other record carries any of them
C12_TerminalStatus ==
    LastIsMonitor =>
        LET r == last_call.result
            fetchedEmpty == last_call.comments = <<>>
            scoredEmpty == analyze_comments_sentiment(last_call.comments) = <<>>
        IN  /\ r.status \in {"no_comments", "analysis_failed", "success"}
            /\ (r.status = "no_comments") <=> fetchedEmpty
            /\ (r.status = "analysis_failed") <=> (~fetchedEmpty /\ scoredEmpty)
            /\ (r.status = "success") <=> (~fetchedEmpty /\ ~scoredEmpty)
            /\ IF r.status = "success"
               THEN MetricFields \subseteq DOMAIN r
               ELSE MetricFields \cap DOMAIN r = {}

\* a monitor_video that fetched comments and returned the success record with an alert
C12_Witness ==
    /\ LastIsMonitor
    /\ last_call.comments # <<>>
    /\ last_call.result.status = "success"
    /\ last_call.result.total_comments = Len(last_call.comments)
    /\ last_call.result.alerts >= 1

(***************************************************************************)
(* The service: monitor_service.py.                                        *)
(***************************************************************************)
\* an API key is available: in the configuration file, or in the environment (which
\* is also the default key)
KeyAvailable ==
    \/ service.env_key # ""
    \/ service.config # <<>> /\ service.config[1].api_key # ""

\* the configured video list is not empty
VideosConfigured == service.config # <<>> /\ service.config[1].video_ids # <<>>

\* the process of the service has ended
ServiceStopped == service.pc \notin {"none", "not_launched"}

\* C15: the service runs no cycle, fetches nothing and writes nothing to the store
\* when no API key is available or the configured video list is empty; in every
\* other configuration it has run at least one cycle when it stops
C15_CycleUnlessMisconfigured ==
    ServiceStopped =>
        IF KeyAvailable /\ VideosConfigured
        THEN service.cycles >= 1
        ELSE /\ service.cycles = 0
             /\ service.fetches = 0
             /\ history = EmptyDatabase.history
             /\ comment_snapshots = EmptyDatabase.comment_snapshots
             /\ alerts = <<>>
             /\ video_info_cache = {}

(***************************************************************************)
(* The queries.                                                            *)
(***************************************************************************)
\* the positions of a frame
Positions(df) == 1..Len(df)

\* C16: get_sentiment_history(video, hours) returns exactly the history rows of the
\* video whose timestamp is at or after now - hours, each once, in non-decreasing
\* order of timestamp; get_recent_alerts(hours) returns exactly the alert rows, of
\* all videos, whose timestamp is at or after now - hours, each once, in
\* non-increasing order of timestamp
C16_QueryWindowAndOrder ==
    LET df == last_call.returned
        cutoff == last_call.now - 2 * last_call.hours
    IN  /\ last_call.op = "get_sentiment_history" =>
              /\ {df[i] : i \in Positions(df)} =
                    {r \in history.rows :
                        r.video_id = last_call.video_id /\ r.timestamp >= cutoff}
              /\ \A i, j \in Positions(df) : i < j => df[i] # df[j]
              /\ \A i, j \in Positions(df) : i < j => df[i].timestamp <= df[j].timestamp
        /\ last_call.op = "get_recent_alerts" =>
              /\ {df[i].id : i \in Positions(df)} =
                    {k \in 1..Len(alerts) : alerts[k].timestamp >= cutoff}
              /\ \A i \in Positions(df) :
                    /\ df[i].video_id = alerts[df[i].id].video_id
                    /\ df[i].alert_type = alerts[df[i].id].alert_type
                    /\ df[i].timestamp = alerts[df[i].id].timestamp
                    /\ df[i].current_value = alerts[df[i].id].current_value
              /\ \A i, j \in Positions(df) : i < j => df[i].id # df[j].id
              /\ \A i, j \in Positions(df) : i < j => df[i].timestamp >= df[j].timestamp

\* a get_recent_alerts whose window starts at the timestamp of a row, leaves an
\* earlier row out and returns rows of two videos, the later first
C16_Witness ==
    /\ last_call.op = "get_recent_alerts"
    /\ \E k \in 1..Len(alerts) : alerts[k].timestamp = last_call.now - 2 * last_call.hours
    /\ \E k \in 1..Len(alerts) : alerts[k].timestamp < last_call.now - 2 * last_call.hours
    /\ Len(last_call.returned) >= 2

(***************************************************************************)
(* The alerts of the cycles.                                               *)
(***************************************************************************)
\* every alert row has a history row of its video that is not later than it
AlertsHaveHistory ==
    \A k \in 1..Len(alerts) :
        \E r \in history.rows :
            r.video_id = alerts[k].video_id /\ r.timestamp <= alerts[k].timestamp

\* a step leaves the alert rows there are as they are, and the rows it adds are of
\* a video whose history entry of this cycle, with the average of this cycle, is
\* in the table before the step
C17_Step ==
    /\ Len(alerts') >= Len(alerts)
    /\ SubSeq(alerts', 1, Len(alerts)) = alerts
    /\ \A k \in (Len(alerts) + 1)..Len(alerts') :
          \E r \in history.rows :
              /\ r.video_id = alerts'[k].video_id
              /\ r.timestamp <= alerts'[k].timestamp
              /\ r.avg_sentiment = MeanPolarity(comments_df)
              /\ r.timestamp = LatestTimestamp(RowsOf(r.video_id))

\* C17: after any sequence of cycles every alert row has a history entry of the same
\* video whose timestamp is not later than the alert's; a cycle writes an alert only
\* after it has persisted its history entry, and no step deletes or changes an
\* alert row
C17_AlertsAfterHistory == []AlertsHaveHistory /\ [][C17_Step]_vars

\* two cycles have written alerts, one of them at a clock value later than the
\* history entry of its video
C17_Witness ==
    /\ CycleReturned
    /\ Len(alerts) >= 2
    /\ \E k \in 1..Len(alerts) :
          \E r \in history.rows :
              r.video_id = alerts[k].video_id /\ r.timestamp < alerts[k].timestamp
    /\ \E k \in 1..Len(alerts) :
          \E r \in history.rows :
              r.video_id = alerts[k].video_id /\ r.timestamp = alerts[k].timestamp

(***************************************************************************)
(* The frame of check_sentiment_alerts.                                    *)
(***************************************************************************)
\* C18: check_sentiment_alerts leaves the history table, the comment_snapshots
\* table, the video_info_cache table and the tracked list as they are, whether or
\* not it emits alerts: it changes the alerts table only, and only by the rows of
\* the alerts it returns
C18_Step ==
    LastIsCheck' =>
        /\ history' = history
        /\ comment_snapshots' = comment_snapshots
        /\ video_info_cache' = video_info_cache
        /\ video_ids' = video_ids
        /\ (alerts_triggered' = <<>>) <=> (alerts' = alerts)

C18_CheckAlertsFrame == [][C18_Step]_vars

\* a check_sentiment_alerts that emitted alerts, on a monitor with tracked videos,
\* history rows, comment rows and cached titles
C18_Witness ==
    /\ LastIsCheck
    /\ alerts_triggered # <<>>
    /\ video_ids # <<>>
    /\ history.rows # {}
    /\ comment_snapshots.rows # {}
    /\ video_info_cache # {}

\* ---------------------------------------------------------------------------
\* C19
\* ---------------------------------------------------------------------------

\* the rows the last call of check_sentiment_alerts wrote: the tail of the
\* alerts table, as long as the list the call returned
PersistedByLastCheck ==
    LET n == Len(alerts_triggered)
    IN  [i \in 1..n |-> alerts[Len(alerts) - n + i]]

\* C19: one call of check_sentiment_alerts returns a negative_threshold and a
\* positive_threshold alert together only when negative_threshold is greater
\* than positive_threshold; with thresholds inverted in that way and the
\* current value strictly between them, the call returns both alerts and
\* writes a row for each of them into the alerts table.
C19_BothAlertsOnlyWhenInverted ==
    LastIsCheck =>
        LET c == last_call.current_sentiment
            th == GivenThresholds(last_call.thresholds)
            negs == OfType(alerts_triggered, "negative_threshold")
            poss == OfType(alerts_triggered, "positive_threshold")
            rows == PersistedByLastCheck
        IN  /\ (negs # {} /\ poss # {}) => th.negative_threshold > th.positive_threshold
            /\ (/\ th.negative_threshold > th.positive_threshold
                /\ th.positive_threshold < c
                /\ c < th.negative_threshold)
               => /\ negs # {} /\ poss # {}
                  /\ Len(alerts) >= Len(alerts_triggered)
                  /\ \A type \in {"negative_threshold", "positive_threshold"} :
                        \E i \in DOMAIN rows :
                            /\ rows[i].alert_type = type
                            /\ rows[i].video_id = last_call.video_id
                            /\ rows[i].current_value = c
                            /\ rows[i].timestamp = last_call.timestamp

\* 0.1 against negative_threshold 0.2 and positive_threshold -0.3: both alerts
C19_Witness ==
    /\ LastIsCheck
    /\ last_call.thresholds = <<InvertedThresholds>>
    /\ last_call.current_sentiment = Pct(10)
    /\ OfType(alerts_triggered, "negative_threshold") # {}
    /\ OfType(alerts_triggered, "positive_threshold") # {}
    /\ Len(alerts) >= 2

\* ---------------------------------------------------------------------------
\* C20
\* ---------------------------------------------------------------------------
LastIsCategorize == last_call.op = "categorize_sentiment"

Categories == {"Very Negative", "Negative", "Neutral", "Positive", "Very Positive"}

\* the call leaves both thresholds at their defaults of -0.1 and 0.1
WithDefaultThresholds ==
    /\ last_call.positive_threshold \in {<<>>, <<Unit \div 10>>}
    /\ last_call.negative_threshold \in {<<>>, <<-(Unit \div 10)>>}

\* C20: with the default thresholds (-0.1, 0.1) categorize_sentiment maps every
\* polarity p of [-1, 1] to exactly one of five categories: Very Negative for
\* p < -0.5, Negative for -0.5 <= p < -0.1, Neutral for -0.1 <= p <= 0.1,
\* Positive for 0.1 < p <= 0.5, Very Positive for p > 0.5; so -0.5 is Negative,
\* -0.1 and 0.1 are Neutral and 0.5 is Positive.
C20_FiveCategories ==
    (LastIsCategorize /\ WithDefaultThresholds) =>
        LET p == last_call.polarity
            category == last_call.category
            half == Unit \div 2
            tenth == Unit \div 10
        IN  /\ category \in Categories
            /\ (category = "Very Negative") <=> (p < -half)
            /\ (category = "Negative") <=> (-half <= p /\ p < -tenth)
            /\ (category = "Neutral") <=> (-tenth <= p /\ p <= tenth)
            /\ (category = "Positive") <=> (tenth < p /\ p <= half)
            /\ (category = "Very Positive") <=> (p > half)
            /\ (p = -half => category = "Negative")
            /\ (p \in {-tenth, tenth} => category = "Neutral")
            /\ (p = half => category = "Positive")

\* the boundary -0.1 with both arguments left out: Neutral
C20_Witness ==
    /\ LastIsCategorize
    /\ last_call.positive_threshold = <<>>
    /\ last_call.negative_threshold = <<>>
    /\ last_call.polarity = -(Unit \div 10)
    /\ last_call.category = "Neutral"

\* ---------------------------------------------------------------------------
\* C21
\* ---------------------------------------------------------------------------

\* the records the first k pages of a script carry (pages that raise carry none)
RECURSIVE CollectedAfter(_, _)
CollectedAfter(pages, k) ==
    IF k = 0 \/ pages = <<>> THEN 0
    ELSE (IF Head(pages).outcome = "ok" THEN Len(PageComments(Head(pages).items)) ELSE 0)
         + CollectedAfter(Tail(pages), k - 1)

\* C21: fetch_video_comments returns at most max_results records, top level
\* comments and replies counted together, whatever the pages and the replies of
\* their threads; and it requests a further page only while fewer than
\* max_results records are collected and the page before carried a continuation
\* token.
C21_AtMostMaxResults ==
    LastIsFetch =>
        /\ Len(last_call.returned) <= last_call.max_results
        /\ \A k \in 2..last_call.requests :
              /\ last_call.api.pages[k - 1].outcome = "ok"
              /\ last_call.api.pages[k - 1].nextPageToken
              /\ CollectedAfter(last_call.api.pages, k - 1) < last_call.max_results

\* ---------------------------------------------------------------------------
\* C22
\* ---------------------------------------------------------------------------

\* every polarity the scorer gives a comment of the scoring runs is in [-1, 1],
\* the 0.0 of a failed scoring included
ScorerInRange ==
    \A c \in ExtremeComments :
        \A i \in DOMAIN c : /\ -Unit <= calculate_sentiment(c[i].comment_text)
                            /\ calculate_sentiment(c[i].comment_text) <= Unit

\* C22: the avg_sentiment of every history row lies in [-1, 1], the polarity the
\* scorer gives each comment lying in [-1, 1] (0.0 when scoring the text fails).
C22_AverageInRange ==
    ScorerInRange =>
        \A r \in history.rows : -Unit <= r.avg_sentiment /\ r.avg_sentiment <= Unit

\* two comments of polarity 1.0 saved: a row of two comments with average 1.0,
\* beside a row with average -1.0
C22_Witness ==
    /\ ScorerInRange
    /\ \E r \in history.rows : r.total_comments = 2 /\ r.avg_sentiment = Unit
    /\ \E r \in history.rows : r.avg_sentiment = -Unit
    /\ \E r \in history.rows : r.total_comments = 2 /\ r.avg_sentiment = Unit \div 2

\* ---------------------------------------------------------------------------
\* C23
\* ---------------------------------------------------------------------------

\* the step of monitor_video that follows a step
StepAfter(step) ==
    CASE step = "title" -> "fetch"
      [] step = "fetch" -> "score"
      [] step = "score" -> "persist"
      [] step = "persist" -> "alert"
      [] OTHER -> "none"

\* the terminal statuses a step can end the video at work with
TerminalStatusesAt(step) ==
    CASE step = "title" -> {"error"}
      [] step = "fetch" -> {"no_comments"}
      [] step = "score" -> {"analysis_failed", "error"}
      [] step = "persist" -> {"error"}
      [] step = "alert" -> {"success", "error"}
      [] OTHER -> {}

\* the records of the cycle are those of the first entries of the tracked list, in
\* its order; while a video is at work they are the records of all entries before it
OneVideoAtWork ==
    /\ Len(results) <= Len(video_ids)
    /\ \A i \in DOMAIN results : results[i].video_id = video_ids[i]
    /\ pc # "idle" => idx \in 1..Len(video_ids) /\ Len(results) = idx - 1
    /\ pc = "idle" => idx = 0 /\ Len(results) \in {0, Len(video_ids)}

\* a step of the cycle: the cycle begins with the first entry; or the video at work
\* goes on to its next step; or it reaches a terminal status, its record is
\* appended, and only then the next entry begins with its first step
C23_Step ==
    \/ /\ pc = "idle"
       /\ \/ pc' = "idle" /\ idx' = 0
          \/ pc' = "title" /\ idx' = 1 /\ results' = <<>>
    \/ /\ pc # "idle"
       /\ pc' = StepAfter(pc)
       /\ idx' = idx
       /\ results' = results
    \/ /\ pc # "idle"
       /\ Len(results') = Len(results) + 1
       /\ SubSeq(results', 1, Len(results)) = results
       /\ results'[idx].video_id = video_ids[idx]
       /\ results'[idx].status \in TerminalStatusesAt(pc)
       /\ IF idx < Len(video_ids)
          THEN pc' = "title" /\ idx' = idx + 1
          ELSE pc' = "idle" /\ idx' = 0

\* C23: within a cycle the videos are processed one at a time in the order of the
\* tracked list; the steps of a video run in the order fetch, score, persist, alert
\* evaluation; the next video's first step begins only after the video before it
\* has its terminal status; at no time are two videos in a step.
C23_OneVideoAtATime == []OneVideoAtWork /\ [][C23_Step]_vars

\* the second entry is at its alert evaluation, the first one has its record
C23_Witness ==
    /\ pc = "alert"
    /\ idx = 2
    /\ Len(results) = 1
    /\ results[1].status = "success"
    /\ results[1].video_id = video_ids[1]
    /\ video_ids[2] # video_ids[1]

\* ---------------------------------------------------------------------------
\* C24
\* ---------------------------------------------------------------------------

\* a cycle has just returned
CycleJustReturned == last_call.op = "monitor_all_videos"

\* the videos with a record in the results of the last cycle
Recorded == {results[i].video_id : i \in DOMAIN results}

\* after a cycle: a video whose last request was add_video has a record in it, a
\* video whose last request was remove_video has none
RecordsFollowRequests ==
    CycleJustReturned =>
        \A v \in Videos : /\ tracking[v] = "added" => v \in Recorded
                          /\ tracking[v] = "removed" => v \notin Recorded

\* add_video and remove_video leave the three tables as they are, and remove_video
\* the cache as well
C24_Step ==
    last_call'.op \in {"add_video", "remove_video"} =>
        /\ UNCHANGED <<history, comment_snapshots, alerts>>
        /\ last_call'.op = "remove_video" => UNCHANGED video_info_cache

\* C24: a video added with add_video between two cycles has a result record in the
\* next cycle and in every later one until it is removed; a video removed with
\* remove_video has no result record in any later cycle until it is added again;
\* add_video and remove_video change the tracked list (add_video the video info
\* cache as well) and never the history, snapshot or alert tables.
C24_AddRemoveTakeEffect == []RecordsFollowRequests /\ [][C24_Step]_vars

\* ---------------------------------------------------------------------------
\* C25
\* ---------------------------------------------------------------------------

\* the alert thresholds the configuration carries: <<>> when it carries none
ConfiguredThresholds ==
    IF "config" \in DOMAIN service /\ service.config # <<>>
    THEN service.config[1].alert_thresholds
    ELSE <<>>

\* C25: the alert evaluation of a monitoring cycle applies the alert thresholds
\* of the configuration, and the defaults (negative -0.3, positive 0.5, drop 0.2,
\* rise 0.2) only when the configuration carries none: the alerts of the video
\* are those the configured thresholds give for its average.
C25_ConfiguredThresholdsApplied ==
    (LastIsMonitor /\ last_call.result.status = "success" /\ last_call.check_alerts) =>
        alerts_triggered = AlertsTriggered(history, last_call.video_id,
                                           last_call.result.avg_sentiment,
                                           ConfiguredThresholds)

\* ---------------------------------------------------------------------------
\* C26
\* ---------------------------------------------------------------------------

\* the comment_snapshots rows of a video at a timestamp
SnapshotsAt(video_id, timestamp) ==
    {r \in comment_snapshots.rows : r.video_id = video_id /\ r.timestamp = timestamp}

\* C26: in every state of the store, each history row (video_id, timestamp) has as
\* many comment_snapshots rows of the same (video_id, timestamp) as its
\* total_comments says, also after a fetch that carries a comment_id twice and
\* after two persists of a video at one timestamp with different comments.
C26_SnapshotCountIsTotal ==
    \A h \in history.rows :
        Cardinality(SnapshotsAt(h.video_id, h.timestamp)) = h.total_comments

\* ---------------------------------------------------------------------------
\* C27
\* ---------------------------------------------------------------------------

\* the records of the pages before the first request that raises
RECURSIVE CollectedBeforeFailure(_)
CollectedBeforeFailure(pages) ==
    IF pages = <<>> \/ Head(pages).outcome # "ok" THEN <<>>
    ELSE PageComments(Head(pages).items) \o CollectedBeforeFailure(Tail(pages))

\* a request of the fetch raised: the video lookup, or a page request
FetchFailed == "printed" \in DOMAIN last_call /\ FetchKind(last_call.printed) # "none"
                    /\ last_call.printed # "Video not found or not accessible"

\* C27: when a page request of fetch_video_comments fails after earlier pages were
\* collected, the fetch returns the comments collected so far, and monitor_video
\* scores and persists them and reports 'success'; a failure before any comment
\* was collected gives 'no_comments'.
C27_PartialFetchIsKept ==
    (LastIsMonitor /\ FetchFailed) =>
        LET collected == IF last_call.api.video = "found"
                         THEN CollectedBeforeFailure(last_call.api.pages) ELSE <<>>
        IN  /\ last_call.comments = collected
            /\ collected # <<>> =>
                  /\ last_call.result.status = "success"
                  /\ last_call.result.total_comments = Len(collected)
                  /\ \E h \in history.rows : /\ h.video_id = last_call.video_id
                                             /\ h.timestamp = last_call.timestamp
                                             /\ h.total_comments = Len(collected)
                  /\ \A i \in DOMAIN collected :
                        \E r \in comment_snapshots.rows :
                            /\ r.video_id = last_call.video_id
                            /\ r.comment_id = collected[i].comment_id
                            /\ r.sentiment = calculate_sentiment(collected[i].comment_text)
            /\ collected = <<>> =>
                  /\ last_call.result.status = "no_comments"
                  /\ history.rows = {} /\ comment_snapshots.rows = {}

\* the second page request raises HttpError 403 after a first page of one comment
C27_Witness ==
    /\ LastIsMonitor
    /\ FetchFailed
    /\ last_call.printed = "API quota exceeded or access denied"
    /\ Len(last_call.api.pages) = 2
    /\ Len(last_call.comments) = 1
    /\ last_call.result.status = "success"
    /\ history.rows # {}

\* ---------------------------------------------------------------------------
\* C28
\* ---------------------------------------------------------------------------

\* C28: the scoring step keeps one scored row for each fetched comment: after a
\* non-empty fetch the scored frame is not empty, the record counts as many
\* comments as were fetched, and monitor_video never returns 'analysis_failed'.
C28_ScoringKeepsRows ==
    LastIsMonitor =>
        /\ last_call.result.status # "analysis_failed"
        /\ last_call.comments # <<>> =>
              /\ last_call.result.status = "success"
              /\ last_call.result.total_comments = Len(last_call.comments)
              /\ last_call.result.positive_count + last_call.result.negative_count
                    + last_call.result.neutral_count = Len(last_call.comments)

\* one fetched comment of polarity 0.0: a success over one comment
C28_Witness ==
    /\ LastIsMonitor
    /\ last_call.comments = <<Comment("c1", "meh")>>
    /\ last_call.result.status = "success"
    /\ last_call.result.total_comments = 1
    /\ last_call.result.avg_sentiment = 0

\* ---------------------------------------------------------------------------
\* C29
\* ---------------------------------------------------------------------------

\* no identifier occurs twice in the tracked list
NoDuplicates == \A i, j \in DOMAIN video_ids : video_ids[i] = video_ids[j] => i = j

\* in a cycle that returned, no video has two records
OneRecordPerVideo ==
    CycleJustReturned =>
        \A i, j \in DOMAIN results : results[i].video_id = results[j].video_id => i = j

\* add_video of a tracked identifier changes nothing of the list; after
\* remove_video the identifier is not in the list
C29_Step ==
    /\ (last_call'.op = "add_video" /\ last_call'.video_id \in Tracked(video_ids))
          => video_ids' = video_ids
    /\ last_call'.op = "add_video" => last_call'.video_id \in Tracked(video_ids')
    /\ last_call'.op = "remove_video" => last_call'.video_id \notin Tracked(video_ids')

\* C29: the tracked list behaves as a set, for every initial list passed to the
\* constructor and after any add_video and remove_video calls: no identifier is
\* in it twice, so no video has two records in a cycle; add_video of a tracked
\* identifier changes nothing; after remove_video(v) v is not in the list.
C29_TrackedListIsSet == [](NoDuplicates /\ OneRecordPerVideo) /\ [][C29_Step]_vars

\* ---------------------------------------------------------------------------
\* C30
\* ---------------------------------------------------------------------------

\* the invariants of the two tables: the keys are unique, and every snapshot row
\* has the history row of its video and timestamp
StoreInvariants ==
    /\ HistoryKeysUnique
    /\ SnapshotKeysUnique
    /\ \A r \in comment_snapshots.rows :
          \E h \in history.rows : h.video_id = r.video_id /\ h.timestamp = r.timestamp

\* the step in which an exception of save_snapshot ends the video at work
PersistRaised ==
    /\ pc = "persist"
    /\ Len(results') = Len(results) + 1
    /\ "persist" \in raised'[Len(raised')]

\* an exception of save_snapshot leaves both tables as they were before the call,
\* and the video has the record 'error'; save_snapshot of an empty frame writes
\* nothing
C30_Step ==
    /\ PersistRaised =>
          /\ history' = history
          /\ comment_snapshots' = comment_snapshots
          /\ results'[Len(results')].status = "error"
          /\ results'[Len(results')].video_id = VideoAtWork
    /\ (last_call'.op = "save_snapshot" /\ last_call'.comments_df = <<>>) =>
          /\ history' = history
          /\ comment_snapshots' = comment_snapshots

\* C30: save_snapshot persists the comment snapshots and the history entry as one
\* unit under one commit: when an error occurs after comment rows were inserted
\* and before the commit, none of the rows of the call is in the store
\* afterwards, the invariants of the store hold, and the video's record of the
\* cycle has status 'error'; a call with an empty scored result writes nothing.
C30_SnapshotIsAtomic == []StoreInvariants /\ [][C30_Step]_vars

\* a cycle in which save_snapshot raised for the video, on a store that holds the
\* rows of an earlier save and nothing of the failed one
C30_Witness ==
    /\ CycleReturned
    /\ Len(results) = 1
    /\ results[1].status = "error"
    /\ "persist" \in raised[1]
    /\ Len(fetched[1]) = 2
    /\ history.rows # {}
    /\ \A r \in comment_snapshots.rows : r.comment_text = "awful"
====
